---- MODULE Spec2Model ----
(***************************************************************************)
(* Worker-side job lifecycle of syt-go-queue.                              *)
(*                                                                         *)
(* One record of the backing store, a set of queued jobs that reference    *)
(* it, a pool of workers that run TaskHandler.HandleLLMTask, and the one   *)
(* circuit breaker (sony/gobreaker, wrapped by internal/circuitbreaker)    *)
(* shared by all workers.  Every blocking point of HandleLLMTask (record   *)
(* fetch, each store update, the completion call, the callback) is a step  *)
(* of its own, so attempts of different workers interleave there.          *)
(*                                                                         *)
(* The breaker is the library the wrapper delegates to (Execute calls      *)
(* gobreaker's Execute with the Settings NewCircuitBreaker builds); its     *)
(* operators below keep the library's names.                               *)
(*                                                                         *)
(* The Database methods and the checks they apply to identifiers and to    *)
(* the callback URL are operators; SpecStore follows single calls of them.  *)
(* SpecRetry follows one job under the retry budget it is enqueued with.    *)
(* SpecIdent applies the two name validators to single strings, SpecURL    *)
(* ValidateCallbackURL and sendCallback to single URLs, SpecLLM (with      *)
(* fairness: SpecLLMFair) follows one call of processLLM under its         *)
(* context, SpecServer the worker process around Worker.Run and            *)
(* Worker.Stop, SpecDelay the delays between the retries of one job        *)
(* (retry delays are in seconds).  SpecAPI follows single requests to the  *)
(* HTTP handlers CreateLLMTask and ListTasks, SpecConfig single calls of   *)
(* validateDeepseekConfig, SpecRange single calls of ipInRange,            *)
(* SpecHandler the breaker NewTaskHandler builds under the traffic of the  *)
(* workers, and SpecShared one call of processLLM among the calls of the   *)
(* other workers.                                                          *)
(*                                                                         *)
(* Time is counted in minutes (the unit of Interval and Timeout of the     *)
(* default breaker); 0 stands for Go's zero time.Time.                     *)
(***************************************************************************)
EXTENDS Integers, Sequences, FiniteSets, TLC

\* ------------------------------------------------------------------ bounds
NumWorkers == 2
NumJobs == 2
MaxRetry == 1
MaxNow == 4
MaxGeneration == 4
MaxWindow == 6
MaxGarbled == 1
MaxNameLen == 4
MaxFields == 2
MaxAddrs == 2
MaxHops == 1
MaxChoices == 2
CallTimeout == 1

\* ------------------------------------------------------- program constants
MaxRequests == 2
Interval == 1
Timeout == 2
MinRequests == 5
FailThresholdNum == 1
FailThresholdDen == 2
DefaultMaxRetry == 25
QueueRetry == 3
Minute == 60
DefaultLimit == 10
MaxLimit == 100

StatusPending == "pending"
StatusProcessing == "processing"
StatusCompleted == "completed"
StatusFailed == "failed"

StateClosed == "closed"
StateHalfOpen == "half-open"
StateOpen == "open"

ErrOpenState == "circuit breaker is open"
ErrTooManyRequests == "too many requests"
BreakerOpenMsg == "service temporarily unavailable: circuit breaker is open"

\* errors the function wrapped by Execute can return (handler.go 259-312)
LLMErrors ==
  { "failed to send LLM API request",
    "LLM API request failed with status: 500" }

\* texts the completion API can answer with
Contents == { "ok" }

\* callback_url values of the record; "" is the absent URL
CallbackURLs == { "", "http://cb" }

\* outcomes of sendCallback (handler.go 91-127)
CallbackOutcomes ==
  { "callback URL validation failed",
    "failed to send callback request",
    "callback request failed with status",
    "nil" }

Workers == 1..NumWorkers

\* payloads of queued jobs: the JSON CreateLLMTask marshals, or bytes that
\* json.Unmarshal rejects (a job put on the queue by another producer)
Payloads == { "json", "garbled" }

VARIABLES
  now,      \* the wall clock read by the breaker
  rec,      \* the record (row) the jobs reference
  cb,       \* the gobreaker.CircuitBreaker behind TaskHandler.circuitBreaker
  queue,    \* per job: the queue runtime's bookkeeping
  pc,       \* per worker: position inside HandleLLMTask
  att,      \* per worker: locals and history of the running attempt
  admitted, \* history: calls the breaker let through in its current generation
  call      \* a call of a Database method: its arguments, then also its result

vars == <<now, rec, cb, queue, pc, att, admitted, call>>

\* ------------------------------------------------------------ gobreaker
ZeroCounts ==
  [ Requests |-> 0, TotalSuccesses |-> 0, TotalFailures |-> 0,
    ConsecutiveSuccesses |-> 0, ConsecutiveFailures |-> 0 ]

countsOnRequest(c) == [c EXCEPT !.Requests = @ + 1]

countsOnSuccess(c) ==
  [c EXCEPT !.TotalSuccesses = @ + 1,
            !.ConsecutiveSuccesses = @ + 1,
            !.ConsecutiveFailures = 0]

countsOnFailure(c) ==
  [c EXCEPT !.TotalFailures = @ + 1,
            !.ConsecutiveFailures = @ + 1,
            !.ConsecutiveSuccesses = 0]

\* mutant: the minimum sample is not required
readyToTrip_NoMinimum(c) ==
  c.TotalFailures * FailThresholdDen >= FailThresholdNum * c.Requests

\* ReadyToTrip: float64(TotalFailures)/float64(Requests) >= FailThreshold,
\* compared exactly as a cross product (Requests >= 5 excludes 0/0).
readyToTrip(c) ==
  /\ c.Requests >= MinRequests
  /\ c.TotalFailures * FailThresholdDen >= FailThresholdNum * c.Requests

toNewGeneration(b, t) ==
  [b EXCEPT !.generation = @ + 1,
            !.counts = ZeroCounts,
            !.expiry = CASE b.state = StateClosed ->
                              IF Interval = 0 THEN 0 ELSE t + Interval
                         [] b.state = StateOpen -> t + Timeout
                         [] OTHER -> 0]

setState(b, s, t) ==
  IF b.state = s THEN b ELSE toNewGeneration([b EXCEPT !.state = s], t)

\* mutant: the open timeout counts as elapsed one tick early
currentState_Early(b, t) ==
  CASE b.state = StateClosed /\ b.expiry # 0 /\ b.expiry < t ->
         toNewGeneration(b, t)
    [] b.state = StateOpen /\ b.expiry <= t ->
         setState(b, StateHalfOpen, t)
    [] OTHER -> b

currentState(b, t) ==
  CASE b.state = StateClosed /\ b.expiry # 0 /\ b.expiry < t ->
         toNewGeneration(b, t)
    [] b.state = StateOpen /\ b.expiry < t ->
         setState(b, StateHalfOpen, t)
    [] OTHER -> b

\* mutant: half-open closes only after more successes than trials allowed
onSuccess_CloseLate(b, t) ==
  CASE b.state = StateClosed ->
         [b EXCEPT !.counts = countsOnSuccess(@)]
    [] b.state = StateHalfOpen ->
         LET b1 == [b EXCEPT !.counts = countsOnSuccess(@)]
         IN IF b1.counts.ConsecutiveSuccesses > MaxRequests
            THEN setState(b1, StateClosed, t)
            ELSE b1
    [] OTHER -> b

onSuccess(b, t) ==
  CASE b.state = StateClosed ->
         [b EXCEPT !.counts = countsOnSuccess(@)]
    [] b.state = StateHalfOpen ->
         LET b1 == [b EXCEPT !.counts = countsOnSuccess(@)]
         IN IF b1.counts.ConsecutiveSuccesses >= MaxRequests
            THEN setState(b1, StateClosed, t)
            ELSE b1
    [] OTHER -> b

onFailure(b, t) ==
  CASE b.state = StateClosed ->
         LET b1 == [b EXCEPT !.counts = countsOnFailure(@)]
         IN IF readyToTrip(b1.counts) THEN setState(b1, StateOpen, t) ELSE b1
    [] b.state = StateHalfOpen -> setState(b, StateOpen, t)
    [] OTHER -> b

\* mutant: an open breaker lets the call through
beforeRequestErr_OpenPasses(b) ==
  IF b.state = StateHalfOpen /\ b.counts.Requests >= MaxRequests
  THEN ErrTooManyRequests
  ELSE "nil"

\* mutant: half-open admits without a quota
beforeRequestErr_NoQuota(b) ==
  IF b.state = StateOpen THEN ErrOpenState ELSE "nil"

\* beforeRequest: the error it returns ("nil" when the call is admitted)
beforeRequestErr(b) ==
  IF b.state = StateOpen THEN ErrOpenState
  ELSE IF b.state = StateHalfOpen /\ b.counts.Requests >= MaxRequests
       THEN ErrTooManyRequests
       ELSE "nil"

\* beforeRequest: the breaker after the call
beforeRequest(b, t) ==
  LET b1 == currentState(b, t)
  IN IF beforeRequestErr(b1) = "nil"
     THEN [b1 EXCEPT !.counts = countsOnRequest(@)]
     ELSE b1

\* afterRequest: the outcome of a call admitted in generation before
afterRequest(b, before, success, t) ==
  LET b1 == currentState(b, t)
  IN IF b1.generation # before THEN b1
     ELSE IF success THEN onSuccess(b1, t) ELSE onFailure(b1, t)

\* NewCircuitBreaker: closed, first generation, window ends after Interval
NewCircuitBreaker(t) ==
  toNewGeneration([state |-> StateClosed, generation |-> 0,
                   counts |-> ZeroCounts, expiry |-> 0], t)

\* processLLM, lines 314-322: the error text handed to HandleLLMTask
processLLMError(err) ==
  IF err = ErrOpenState THEN BreakerOpenMsg ELSE err

\* ------------------------------------------------- identifiers and text
\* A Go string is the sequence of its characters.
UpperCase ==
  <<"A","B","C","D","E","F","G","H","I","J","K","L","M","N","O","P","Q","R","S","T","U","V","W","X","Y","Z">>

LowerCase ==
  <<"a","b","c","d","e","f","g","h","i","j","k","l","m","n","o","p","q","r","s","t","u","v","w","x","y","z">>

Digits == {"0","1","2","3","4","5","6","7","8","9"}

\* the class [a-zA-Z0-9_] of the two validation patterns
WordChars ==
  {UpperCase[i] : i \in 1..26} \cup {LowerCase[i] : i \in 1..26}
    \cup Digits \cup {"_"}

Lower(c) ==
  IF \E i \in 1..26 : UpperCase[i] = c
  THEN LowerCase[CHOOSE i \in 1..26 : UpperCase[i] = c]
  ELSE c

\* strings.ToLower
ToLower(str) == [i \in 1..Len(str) |-> Lower(str[i])]

\* regexp ^[a-zA-Z0-9_]+$ . MatchString
MatchString(str) ==
  /\ Len(str) >= 1
  /\ \A i \in 1..Len(str) : str[i] \in WordChars

\* reservedKeywords of validateTableName (database.go 50)
TableReservedKeywords ==
  { <<"s","e","l","e","c","t">>,
    <<"f","r","o","m">>,
    <<"w","h","e","r","e">>,
    <<"i","n","s","e","r","t">>,
    <<"u","p","d","a","t","e">>,
    <<"d","e","l","e","t","e">>,
    <<"d","r","o","p">>,
    <<"a","l","t","e","r">>,
    <<"t","a","b","l","e">> }

\* reservedKeywords of validateFieldName (database.go 70-71)
FieldReservedKeywords ==
  { <<"s","e","l","e","c","t">>,
    <<"f","r","o","m">>,
    <<"w","h","e","r","e">>,
    <<"i","n","s","e","r","t">>,
    <<"u","p","d","a","t","e">>,
    <<"d","e","l","e","t","e">>,
    <<"d","r","o","p">>,
    <<"a","l","t","e","r">>,
    <<"t","a","b","l","e">>,
    <<"a","n","d">>,
    <<"o","r">>,
    <<"n","o","t">>,
    <<"l","i","k","e">>,
    <<"i","n">>,
    <<"b","e","t","w","e","e","n">>,
    <<"i","s">>,
    <<"n","u","l","l">>,
    <<"t","r","u","e">>,
    <<"f","a","l","s","e">> }

validateTableName(tableName) ==
  IF ~MatchString(tableName) THEN "invalid table name"
  ELSE IF ToLower(tableName) \in TableReservedKeywords
       THEN "table name cannot be a reserved keyword"
       ELSE "nil"

\* mutant: the keyword comparison keeps the letter case
validateFieldName_CaseSensitive(fieldName) ==
  IF ~MatchString(fieldName) THEN "invalid field name"
  ELSE IF fieldName \in FieldReservedKeywords
       THEN "field name cannot be a reserved keyword"
       ELSE "nil"

validateFieldName(fieldName) ==
  IF ~MatchString(fieldName) THEN "invalid field name"
  ELSE IF ToLower(fieldName) \in FieldReservedKeywords
       THEN "field name cannot be a reserved keyword"
       ELSE "nil"

\* ------------------------------------------------- the callback URL check
\* A net.IP is the sequence of its bytes: 4 for the short form of an IPv4
\* address, 16 otherwise; <<>> is the nil IP.
\* net.ParseIP of a dotted quad: the 16-byte IPv4-mapped form
ParseIPv4(a, b, c, d) == <<0,0,0,0,0,0,0,0,0,0,255,255,a,b,c,d>>

\* net.IP.To4
To4(ip) ==
  IF Len(ip) = 4 THEN ip
  ELSE IF /\ Len(ip) = 16
          /\ \A i \in 1..10 : ip[i] = 0
          /\ ip[11] = 255 /\ ip[12] = 255
       THEN <<ip[13], ip[14], ip[15], ip[16]>>
       ELSE <<>>

allowedSchemes == {"http", "https"}

forbiddenIPRanges ==
  <<
     [start |-> ParseIPv4(10, 0, 0, 0), end |-> ParseIPv4(10, 255, 255, 255)],
     [start |-> ParseIPv4(172, 16, 0, 0), end |-> ParseIPv4(172, 31, 255, 255)],
     [start |-> ParseIPv4(192, 168, 0, 0), end |-> ParseIPv4(192, 168, 255, 255)],
     [start |-> ParseIPv4(127, 0, 0, 0), end |-> ParseIPv4(127, 255, 255, 255)],
     [start |-> ParseIPv4(0, 0, 0, 0), end |-> ParseIPv4(0, 255, 255, 255)],
     [start |-> ParseIPv4(169, 254, 0, 0), end |-> ParseIPv4(169, 254, 255, 255)],
     [start |-> ParseIPv4(192, 0, 2, 0), end |-> ParseIPv4(192, 0, 2, 255)],
     [start |-> ParseIPv4(198, 51, 100, 0), end |-> ParseIPv4(198, 51, 100, 255)],
     [start |-> ParseIPv4(203, 0, 113, 0), end |-> ParseIPv4(203, 0, 113, 255)],
     [start |-> ParseIPv4(224, 0, 0, 0), end |-> ParseIPv4(239, 255, 255, 255)],
     [start |-> ParseIPv4(240, 0, 0, 0), end |-> ParseIPv4(255, 255, 255, 255)],
     [start |-> ParseIPv4(100, 64, 0, 0), end |-> ParseIPv4(100, 127, 255, 255)],
     [start |-> ParseIPv4(192, 0, 0, 0), end |-> ParseIPv4(192, 0, 0, 255)],
     [start |-> ParseIPv4(198, 18, 0, 0), end |-> ParseIPv4(198, 19, 255, 255)],
     [start |-> <<32,1,13,184,0,0,0,0,0,0,0,0,0,0,0,0>>,
      end |-> <<32,1,13,184,255,255,255,255,255,255,255,255,255,255,255,255>>],
     [start |-> <<252,0,0,0,0,0,0,0,0,0,0,0,0,0,0,0>>,
      end |-> <<253,255,255,255,255,255,255,255,255,255,255,255,255,255,255,255>>],
     [start |-> <<254,128,0,0,0,0,0,0,0,0,0,0,0,0,0,0>>,
      end |-> <<254,191,255,255,255,255,255,255,255,255,255,255,255,255,255,255>>],
     [start |-> <<0,0,0,0,0,0,0,0,0,0,0,0,0,0,0,1>>,
      end |-> <<0,0,0,0,0,0,0,0,0,0,0,0,0,0,0,1>>],
     [start |-> <<0,0,0,0,0,0,0,0,0,0,0,0,0,0,0,0>>,
      end |-> <<0,0,0,0,0,0,0,0,0,0,0,0,0,0,0,0>>]
  >>

forbiddenHostnames ==
  { <<"l","o","c","a","l","h","o","s","t">>,
    <<"1","2","7",".","0",".","0",".","1">>,
    <<":",":","1">>,
    <<"0",".","0",".","0",".","0">>,
    <<"[",":",":","1","]">>,
    <<"[",":",":","0","]">> }

\* the loop of ipInRange from index i on (1-based)
RECURSIVE ipInRangeFrom(_, _, _, _)
ipInRangeFrom(ip, start, end, i) ==
  IF i > Len(ip) THEN TRUE
  ELSE IF ip[i] < start[i] \/ ip[i] > end[i] THEN FALSE
  ELSE IF ip[i] # start[i] /\ ip[i] # end[i] THEN TRUE
  ELSE ipInRangeFrom(ip, start, end, i + 1)

\* mutant: the ends of the range are compared as they are stored
ipInRange_Unconverted(ip, start, end) ==
  LET is4 == To4(ip) # <<>>
      ip1 == IF is4 THEN To4(ip) ELSE ip
  IN IF ip1 = <<>> \/ start = <<>> \/ end = <<>>
     THEN FALSE
     ELSE ipInRangeFrom(ip1, start, end, 1)

\* url.go 53-73
ipInRange(ip, start, end) ==
  LET is4 == To4(ip) # <<>>
      ip1 == IF is4 THEN To4(ip) ELSE ip
      start1 == IF is4 THEN To4(start) ELSE start
      end1 == IF is4 THEN To4(end) ELSE end
  IN IF ip1 = <<>> \/ start1 = <<>> \/ end1 = <<>>
     THEN FALSE
     ELSE ipInRangeFrom(ip1, start1, end1, 1)

\* mutant: only the first resolved address is checked
ValidateCallbackURL_FirstAddress(u) ==
  IF ~u.parses THEN "invalid URL format"
  ELSE IF u.scheme \notin allowedSchemes THEN "URL scheme not allowed"
  ELSE IF ToLower(u.hostname) \in forbiddenHostnames
       THEN "hostname not allowed"
  ELSE IF ~u.resolves THEN "failed to resolve hostname"
  ELSE IF \E j \in 1..Len(forbiddenIPRanges) :
            ipInRange(u.ips[1], forbiddenIPRanges[j].start,
                      forbiddenIPRanges[j].end)
       THEN "IP address in forbidden range"
  ELSE "nil"

\* ValidateCallbackURL.  The argument is the URL as url.Parse sees it (parse
\* error or scheme and hostname) together with what net.LookupIP answers for
\* its hostname at the time of the call (resolves, ips).
ValidateCallbackURL(u) ==
  IF ~u.parses THEN "invalid URL format"
  ELSE IF u.scheme \notin allowedSchemes THEN "URL scheme not allowed"
  ELSE IF ToLower(u.hostname) \in forbiddenHostnames
       THEN "hostname not allowed"
  ELSE IF ~u.resolves THEN "failed to resolve hostname"
  ELSE IF \E i \in 1..Len(u.ips), j \in 1..Len(forbiddenIPRanges) :
            ipInRange(u.ips[i], forbiddenIPRanges[j].start,
                      forbiddenIPRanges[j].end)
       THEN "IP address in forbidden range"
  ELSE "nil"

\* ------------------------------------------------------------ the store
\* mutant: the statement leaves the status column out
UpdateRecord_DropsStatus(r, updates) ==
  [f \in DOMAIN r |->
     IF f \in DOMAIN updates /\ f # "status" THEN updates[f] ELSE r[f]]

\* UpdateRecord: every field of the map is set by the one UPDATE statement
UpdateRecord(r, updates) ==
  [f \in DOMAIN r |-> IF f \in DOMAIN updates THEN updates[f] ELSE r[f]]

\* mutant: the status write is lost
UpdateStatus_Lost(r, status) == r

\* UpdateStatus: UPDATE ... SET status = ?
UpdateStatus(r, status) == [r EXCEPT !.status = status]

\* ------------------------------------------------- the Database methods
\* A statement handed to the driver: its verb, the table identifier spliced
\* into the text, and the columns of its SET clause.
Statement(verb, tableName, set) ==
  [verb |-> verb, table |-> tableName, set |-> set]

\* A Go string that may be handed to ValidateCallbackURL: its text, with
\* what url.Parse and net.LookupIP make of it.  GoString is a text that is
\* no absolute URL (url.Parse gives it the empty scheme and hostname).
GoString(text) ==
  [text |-> text, parses |-> TRUE, scheme |-> "", hostname |-> <<>>,
   resolves |-> FALSE, ips |-> <<>>]

\* values bound to the placeholders: a Go string, or a value of another
\* type (the type assertion value.(string) of UpdateRecord fails on it)
StringValue(str) == [type |-> "string", text |-> str]
BytesValue(str) == [type |-> "bytes", text |-> str]

ColStatus == <<"s","t","a","t","u","s">>
ColFailedInfo == <<"f","a","i","l","e","d","_","i","n","f","o">>
ColFailedTimes == <<"f","a","i","l","e","d","_","t","i","m","e","s">>
ColCallbackURL == <<"c","a","l","l","b","a","c","k","_","u","r","l">>

Columns == {ColStatus, ColFailedInfo, ColFailedTimes, ColCallbackURL}

\* the row the calls address, before the call
NewRow ==
  [c \in Columns |->
     IF c = ColStatus THEN StringValue(GoString(StatusPending))
     ELSE StringValue(GoString(""))]

DBOutcomes == {"ok", "error"}

\* ExecContext: the driver's answer to an UPDATE; a statement with an empty
\* SET clause or a column the table does not have is refused by the server
ExecContext(row, stmt, db) ==
  IF stmt.set = {} \/ ~(stmt.set \subseteq DOMAIN row) THEN "error" ELSE db

\* GetValuationRecord (database.go 84-109)
DatabaseGetValuationRecord(tableName, db) ==
  IF validateTableName(tableName) # "nil"
  THEN [err |-> validateTableName(tableName), sent |-> <<>>]
  ELSE [err |-> IF db = "ok" THEN "nil" ELSE "failed to get valuation record",
        sent |-> <<Statement("SELECT", tableName, {})>>]

\* UpdateStatus (database.go 112-132)
DatabaseUpdateStatus(row, tableName, db) ==
  IF validateTableName(tableName) # "nil"
  THEN [err |-> validateTableName(tableName), sent |-> <<>>]
  ELSE LET stmt == Statement("UPDATE", tableName, {ColStatus})
       IN [err |-> IF ExecContext(row, stmt, db) = "ok" THEN "nil"
                   ELSE "failed to update status",
           sent |-> <<stmt>>]

\* mutant: the table name goes into the statement unchecked
DatabaseUpdateFailedInfo_Unchecked(row, tableName, db) ==
  LET stmt == Statement("UPDATE", tableName, {ColFailedInfo, ColFailedTimes})
  IN [err |-> IF ExecContext(row, stmt, db) = "ok" THEN "nil"
              ELSE "failed to update failed info",
      sent |-> <<stmt>>]

\* UpdateFailedInfo (database.go 135-147)
DatabaseUpdateFailedInfo(row, tableName, db) ==
  IF validateTableName(tableName) # "nil"
  THEN [err |-> validateTableName(tableName), sent |-> <<>>]
  ELSE LET stmt == Statement("UPDATE", tableName,
                             {ColFailedInfo, ColFailedTimes})
       IN [err |-> IF ExecContext(row, stmt, db) = "ok" THEN "nil"
                   ELSE "failed to update failed info",
           sent |-> <<stmt>>]

\* mutant: the callback URL is stored without the safety check
FieldError_URLUnchecked(field, value) == validateFieldName(field)

\* the body of UpdateRecord's validation loop for one entry of the map
\* (database.go 161-176)
FieldError(field, value) ==
  IF validateFieldName(field) # "nil" THEN validateFieldName(field)
  ELSE IF /\ field = ColCallbackURL
          /\ value.type = "string" /\ value.text.text # ""
          /\ ValidateCallbackURL(value.text) # "nil"
       THEN "invalid callback URL"
       ELSE "nil"

\* UpdateRecord (database.go 150-202): the results it can give.  The map is
\* ranged over in an unspecified order, so when several entries fail the
\* check the error returned is that of any one of them.
DatabaseUpdateRecord(row, tableName, updates, db) ==
  IF validateTableName(tableName) # "nil"
  THEN {[err |-> validateTableName(tableName), sent |-> <<>>]}
  ELSE LET errs == {FieldError(f, updates[f]) : f \in DOMAIN updates}
                     \ {"nil"}
           stmt == Statement("UPDATE", tableName, DOMAIN updates)
       IN IF errs # {}
          THEN {[err |-> e, sent |-> <<>>] : e \in errs}
          ELSE {[err |-> IF ExecContext(row, stmt, db) = "ok" THEN "nil"
                         ELSE "failed to update record",
                 sent |-> <<stmt>>]}

\* no Database method is being followed
NoCall == [stage |-> "none"]

\* ------------------------------------------------------------ attempts
NoAttempt ==
  [ payload |-> "none",    \* the payload of the job being run
    retried |-> 0,         \* the queue's retry count of the job being run
    Status |-> "",           \* the fields of the fetched record
    FailedTimes |-> 0, CurrentTaskNode |-> 0, CallbackURL |-> "",
    marked |-> FALSE,        \* history: this attempt's Processing write succeeded
    generation |-> 0,        \* the generation beforeRequest returned
    seen |-> "none",         \* history: breaker state beforeRequest found
    executed |-> FALSE,      \* history: the wrapped function (HTTP request) ran
    cberr |-> "nil",         \* error returned by beforeRequest
    result |-> "", err |-> "nil",   \* what processLLM returned
    updates |-> <<>>,        \* history: field maps passed to UpdateRecord
    after |-> <<>>,          \* history: the record right after the outcome write
    callback |-> "none",     \* outcome of sendCallback
    ret |-> <<"running">> ]    \* what HandleLLMTask returned (<<>> is nil)

\* Breakers a freshly delivered job can meet.  The breaker is created once
\* per process (at time 1) and outlives the jobs, so the record's attempts
\* start against a breaker that earlier traffic for other records may have
\* driven on.  Each snapshot is reached from NewCircuitBreaker(1) in
\* SpecBreaker (SnapshotIdle, SnapshotPrimed, SnapshotTripped).
SnapshotIdle ==       \* constructed, not used since
  [now |-> 3, cb |-> NewCircuitBreaker(1)]

SnapshotPrimed ==     \* four calls of the running window failed
  [now |-> 3,
   cb |-> [state |-> StateClosed, generation |-> 2, expiry |-> 3 + Interval,
           counts |-> [Requests |-> 4, TotalSuccesses |-> 0,
                       TotalFailures |-> 4, ConsecutiveSuccesses |-> 0,
                       ConsecutiveFailures |-> 4]]]

SnapshotTripped ==    \* tripped at time 1, the open timeout ends now
  [now |-> 3,
   cb |-> [state |-> StateOpen, generation |-> 2, expiry |-> 1 + Timeout,
           counts |-> ZeroCounts]]

BreakerSnapshots == {SnapshotIdle, SnapshotPrimed, SnapshotTripped}

\* The queue runtime's bookkeeping.  Jobs of one payload differ only in
\* their retry count, so the queue holds, per payload and retry count, the
\* number of jobs waiting for delivery (pending, or scheduled for a retry),
\* and the numbers of completed and archived jobs.  A job being run is held
\* by exactly one worker (att[w].payload, att[w].retried) and is in none of
\* these.  maxRetry is the retry budget the jobs were enqueued with.
NewQueue(n, m, max) ==
  [ waiting |-> [p \in Payloads |->
                   [r \in 0..max |->
                      IF r # 0 THEN 0 ELSE IF p = "json" THEN n ELSE m]],
    completed |-> 0, archived |-> 0, maxRetry |-> max ]

\* the row a job refers to does not exist: GetContext finds no rows
NoRecord == <<>>

NewRecord(url) ==
  [ status |-> StatusPending, report |-> "", failed_times |-> 0,
    failed_info |-> "", current_task_node |-> 1, callback_url |-> url ]

Init ==
  /\ \E s \in BreakerSnapshots : now = s.now /\ cb = s.cb
  /\ \E url \in CallbackURLs : rec = NewRecord(url)
  /\ \E m \in 0..MaxGarbled : queue = NewQueue(NumJobs - m, m, MaxRetry)
  /\ pc = [w \in Workers |-> "idle"]
  /\ att = [w \in Workers |-> NoAttempt]
  /\ admitted = cb.counts.Requests
  /\ call = NoCall

\* HandleLLMTask returns ret to the queue runtime.
Return(w, ret, a) ==
  /\ pc' = [pc EXCEPT ![w] = "returned"]
  /\ att' = [att EXCEPT ![w] = [a EXCEPT !.ret = ret]]
  /\ UNCHANGED queue

\* The queue runtime after the handler returned ret for a job that has been
\* retried r times: a nil return completes the job, an error schedules a
\* retry until the budget is spent and archives the job then.
Settle(q, p, r, ret) ==
  IF ret = <<>> THEN [q EXCEPT !.completed = @ + 1]
  ELSE IF r < q.maxRetry
       THEN [q EXCEPT !.waiting[p][r + 1] = @ + 1]
       ELSE [q EXCEPT !.archived = @ + 1]

Ack(w) ==
  /\ pc[w] = "returned"
  /\ queue' = Settle(queue, att[w].payload, att[w].retried, att[w].ret)
  /\ pc' = [pc EXCEPT ![w] = "idle"]
  /\ att' = [att EXCEPT ![w] = NoAttempt]
  /\ UNCHANGED <<now, rec, cb, admitted, call>>

\* time passes
Tick ==
  /\ now < MaxNow
  /\ now' = now + 1
  /\ UNCHANGED <<rec, cb, queue, pc, att, admitted, call>>

\* mutant: a job is handed to a worker whether it is free or not
Deliver_Busy(w, r) ==
  /\ r \in DOMAIN queue.waiting["json"]
  /\ queue.waiting["json"][r] > 0
  /\ queue' = [queue EXCEPT !.waiting["json"][r] = @ - 1]
  /\ \/ /\ rec # NoRecord
        /\ pc' = [pc EXCEPT ![w] = "mark"]
        /\ att' = [att EXCEPT ![w] =
                     [NoAttempt EXCEPT !.payload = "json", !.retried = r,
                                       !.Status = rec.status,
                                       !.FailedTimes = rec.failed_times,
                                       !.CurrentTaskNode = rec.current_task_node,
                                       !.CallbackURL = rec.callback_url]]
     \/ /\ pc' = [pc EXCEPT ![w] = "returned"]
        /\ att' = [att EXCEPT ![w] =
                     [NoAttempt EXCEPT !.payload = "json", !.retried = r,
                                       !.ret = <<"failed to get valuation record">>]]
  /\ UNCHANGED <<now, rec, cb, admitted, call>>

\* mutant: a job whose record is already Completed is acknowledged unrun
Deliver_CompletedSkipped(w, r) ==
  /\ pc[w] = "idle"
  /\ \A v \in Workers : pc[v] = "idle" => w <= v
  /\ r \in DOMAIN queue.waiting["json"]
  /\ queue.waiting["json"][r] > 0
  /\ queue' = [queue EXCEPT !.waiting["json"][r] = @ - 1]
  /\ \/ /\ rec # NoRecord /\ rec.status # StatusCompleted
        /\ pc' = [pc EXCEPT ![w] = "mark"]
        /\ att' = [att EXCEPT ![w] =
                     [NoAttempt EXCEPT !.payload = "json", !.retried = r,
                                       !.Status = rec.status,
                                       !.FailedTimes = rec.failed_times,
                                       !.CurrentTaskNode = rec.current_task_node,
                                       !.CallbackURL = rec.callback_url]]
     \/ /\ rec # NoRecord /\ rec.status = StatusCompleted
        /\ pc' = [pc EXCEPT ![w] = "returned"]
        /\ att' = [att EXCEPT ![w] =
                     [NoAttempt EXCEPT !.payload = "json", !.retried = r,
                                       !.Status = rec.status,
                                       !.ret = <<>>]]
     \/ /\ pc' = [pc EXCEPT ![w] = "returned"]
        /\ att' = [att EXCEPT ![w] =
                     [NoAttempt EXCEPT !.payload = "json", !.retried = r,
                                       !.ret = <<"failed to get valuation record">>]]
  /\ UNCHANGED <<now, rec, cb, admitted, call>>

\* The queue runtime hands a waiting job with retry count r to a free worker
\* (free workers are interchangeable: the lowest-numbered takes it), which
\* runs HandleLLMTask up to the return of h.db.GetValuationRecord
\* (handler.go 138-155); the payload decodes.
Deliver(w, r) ==
  /\ pc[w] = "idle"
  /\ \A v \in Workers : pc[v] = "idle" => w <= v
  /\ r \in DOMAIN queue.waiting["json"]
  /\ queue.waiting["json"][r] > 0
  /\ queue' = [queue EXCEPT !.waiting["json"][r] = @ - 1]
  /\ \/ /\ rec # NoRecord
        /\ pc' = [pc EXCEPT ![w] = "mark"]
        /\ att' = [att EXCEPT ![w] =
                     [NoAttempt EXCEPT !.payload = "json", !.retried = r,
                                       !.Status = rec.status,
                                       !.FailedTimes = rec.failed_times,
                                       !.CurrentTaskNode = rec.current_task_node,
                                       !.CallbackURL = rec.callback_url]]
     \/ /\ pc' = [pc EXCEPT ![w] = "returned"]
        /\ att' = [att EXCEPT ![w] =
                     [NoAttempt EXCEPT !.payload = "json", !.retried = r,
                                       !.ret = <<"failed to get valuation record">>]]
  /\ UNCHANGED <<now, rec, cb, admitted, call>>

\* The queue runtime hands a waiting job whose payload json.Unmarshal
\* rejects to a free worker: HandleLLMTask returns the decode error
\* (handler.go 142-147).
DeliverGarbled(w, r) ==
  /\ pc[w] = "idle"
  /\ \A v \in Workers : pc[v] = "idle" => w <= v
  /\ r \in DOMAIN queue.waiting["garbled"]
  /\ queue.waiting["garbled"][r] > 0
  /\ queue' = [queue EXCEPT !.waiting["garbled"][r] = @ - 1]
  /\ pc' = [pc EXCEPT ![w] = "returned"]
  /\ att' = [att EXCEPT ![w] =
               [NoAttempt EXCEPT !.payload = "garbled", !.retried = r,
                                 !.ret = <<"failed to unmarshal payload">>]]
  /\ UNCHANGED <<now, rec, cb, admitted, call>>

\* mutant: the error of the Processing write is dropped and the attempt
\* goes on to the completion call
MarkProcessing_Continues(w) ==
  /\ pc[w] = "mark"
  /\ \/ /\ rec' = UpdateStatus(rec, StatusProcessing)
        /\ att' = [att EXCEPT ![w].marked = TRUE]
     \/ /\ UNCHANGED <<rec, att>>
  /\ pc' = [pc EXCEPT ![w] = "llm"]
  /\ UNCHANGED <<now, cb, queue, admitted, call>>

\* h.db.UpdateStatus(..., StatusProcessing) (handler.go 158-162)
MarkProcessing(w) ==
  /\ pc[w] = "mark"
  /\ \/ /\ rec' = UpdateStatus(rec, StatusProcessing)
        /\ pc' = [pc EXCEPT ![w] = "llm"]
        /\ att' = [att EXCEPT ![w].marked = TRUE]
        /\ UNCHANGED queue
     \/ /\ Return(w, <<"failed to update status">>, att[w])
        /\ UNCHANGED rec
  /\ UNCHANGED <<now, cb, admitted, call>>

\* history: the calls let through since the breaker entered its generation
Admitted(b0, b1, n) == IF b1.generation = b0.generation THEN n ELSE 0

\* processLLM up to the start of the HTTP request: Execute's beforeRequest
ExecuteBefore(w) ==
  /\ pc[w] = "llm"
  /\ LET b1 == currentState(cb, now)
         e == beforeRequestErr(b1)
     IN /\ cb' = beforeRequest(cb, now)
        /\ IF e = "nil"
           THEN /\ pc' = [pc EXCEPT ![w] = "inflight"]
                /\ att' = [att EXCEPT ![w].generation = b1.generation,
                                      ![w].seen = b1.state,
                                      ![w].executed = TRUE]
                /\ admitted' = Admitted(cb, b1, admitted) + 1
           ELSE /\ pc' = [pc EXCEPT ![w] = "llm_failed"]
                /\ att' = [att EXCEPT ![w].seen = b1.state,
                                      ![w].cberr = e,
                                      ![w].err = processLLMError(e)]
                /\ admitted' = Admitted(cb, b1, admitted)
  /\ UNCHANGED <<now, rec, queue, call>>

\* the wrapped function returns and Execute's afterRequest records it
ExecuteAfter(w) ==
  /\ pc[w] = "inflight"
  /\ \/ \E c \in Contents :
          /\ cb' = afterRequest(cb, att[w].generation, TRUE, now)
          /\ pc' = [pc EXCEPT ![w] = "llm_ok"]
          /\ att' = [att EXCEPT ![w].result = c]
     \/ \E e \in LLMErrors :
          /\ cb' = afterRequest(cb, att[w].generation, FALSE, now)
          /\ pc' = [pc EXCEPT ![w] = "llm_failed"]
          /\ att' = [att EXCEPT ![w].err = processLLMError(e)]
  /\ admitted' = Admitted(cb, cb', admitted)
  /\ UNCHANGED <<now, rec, queue, call>>

\* mutant: the failure is recorded without marking the record failed
FailedUpdates_NoStatus(a) ==
  [ status |-> StatusProcessing,
    failed_times |-> a.FailedTimes + 1,
    failed_info |-> a.err ]

\* the failure branch of HandleLLMTask (handler.go 166-184)
FailedUpdates(a) ==
  [ status |-> StatusFailed,
    failed_times |-> a.FailedTimes + 1,
    failed_info |-> a.err ]

\* mutant: the completion error is returned whether the write succeeded or
\* not
WriteFailed_WriteErrorDropped(w) ==
  /\ pc[w] = "llm_failed"
  /\ LET a == [att[w] EXCEPT !.updates = Append(@, FailedUpdates(att[w]))]
     IN \/ /\ rec' = UpdateRecord(rec, FailedUpdates(att[w]))
           /\ Return(w, <<"failed to process LLM", att[w].err>>,
                     [a EXCEPT !.after = <<rec'>>])
        \/ /\ UNCHANGED rec
           /\ Return(w, <<"failed to process LLM", att[w].err>>, a)
  /\ UNCHANGED <<now, cb, admitted, call>>

\* handler.go 166-184: the failure write, then the return
WriteFailed(w) ==
  /\ pc[w] = "llm_failed"
  /\ LET a == [att[w] EXCEPT !.updates = Append(@, FailedUpdates(att[w]))]
     IN \/ /\ rec' = UpdateRecord(rec, FailedUpdates(att[w]))
           /\ Return(w, <<"failed to process LLM", att[w].err>>,
                     [a EXCEPT !.after = <<rec'>>])
        \/ /\ UNCHANGED rec
           /\ Return(w, <<"failed to update failure information">>, a)
  /\ UNCHANGED <<now, cb, admitted, call>>

\* mutant: the result is not stored
CompletedUpdates_NoReport(a) ==
  [ status |-> StatusCompleted,
    current_task_node |-> a.CurrentTaskNode + 1 ]

\* mutant: the task node is written back as it was read
CompletedUpdates_StaleNode(a) ==
  [ status |-> StatusCompleted,
    report |-> a.result,
    current_task_node |-> a.CurrentTaskNode ]

\* the success branch of HandleLLMTask (handler.go 187-196)
CompletedUpdates(a) ==
  [ status |-> StatusCompleted,
    report |-> a.result,
    current_task_node |-> a.CurrentTaskNode + 1 ]

\* mutant: the callback is sent although the Completed write failed
WriteCompleted_CallbackAnyway(w) ==
  /\ pc[w] = "llm_ok"
  /\ LET a == [att[w] EXCEPT !.updates = Append(@, CompletedUpdates(att[w]))]
     IN \/ /\ rec' = UpdateRecord(rec, CompletedUpdates(att[w]))
           /\ IF att[w].CallbackURL # ""
              THEN /\ pc' = [pc EXCEPT ![w] = "callback"]
                   /\ att' = [att EXCEPT ![w] = [a EXCEPT !.after = <<rec'>>]]
                   /\ UNCHANGED queue
              ELSE Return(w, <<>>, [a EXCEPT !.after = <<rec'>>])
        \/ /\ UNCHANGED rec
           /\ IF att[w].CallbackURL # ""
              THEN /\ pc' = [pc EXCEPT ![w] = "callback"]
                   /\ att' = [att EXCEPT ![w] = a]
                   /\ UNCHANGED queue
              ELSE Return(w, <<"failed to update record">>, a)
  /\ UNCHANGED <<now, cb, admitted, call>>

\* handler.go 186-202: the Completed write, then the callback or the return
WriteCompleted(w) ==
  /\ pc[w] = "llm_ok"
  /\ LET a == [att[w] EXCEPT !.updates = Append(@, CompletedUpdates(att[w]))]
     IN \/ /\ rec' = UpdateRecord(rec, CompletedUpdates(att[w]))
           /\ IF att[w].CallbackURL # ""
              THEN /\ pc' = [pc EXCEPT ![w] = "callback"]
                   /\ att' = [att EXCEPT ![w] = [a EXCEPT !.after = <<rec'>>]]
                   /\ UNCHANGED queue
              ELSE Return(w, <<>>, [a EXCEPT !.after = <<rec'>>])
        \/ /\ UNCHANGED rec
           /\ Return(w, <<"failed to update record">>, a)
  /\ UNCHANGED <<now, cb, admitted, call>>

\* mutant: a failed callback fails the attempt
CallbackReturn_Escalate(o) ==
  IF o = "nil" THEN <<>> ELSE <<"callback failed", o>>

\* what HandleLLMTask returns once sendCallback ended with outcome o
\* (handler.go 202-213): the failure is logged, the return is nil
CallbackReturn(o) == <<>>

\* mutant: a callback that failed is sent again
SendCallback_Resend(w) ==
  /\ pc[w] = "callback"
  /\ \E o \in CallbackOutcomes :
       IF o = "nil"
       THEN Return(w, CallbackReturn(o), [att[w] EXCEPT !.callback = o])
       ELSE /\ att' = [att EXCEPT ![w].callback = o]
            /\ UNCHANGED <<pc, queue>>
  /\ UNCHANGED <<now, rec, cb, admitted, call>>

\* handler.go 202-213: one sendCallback, then the return
SendCallback(w) ==
  /\ pc[w] = "callback"
  /\ \E o \in CallbackOutcomes :
       Return(w, CallbackReturn(o), [att[w] EXCEPT !.callback = o])
  /\ UNCHANGED <<now, rec, cb, admitted, call>>

Next ==
  \/ Tick
  \/ \E w \in Workers, r \in 0..queue.maxRetry : Deliver(w, r)
  \/ \E w \in Workers, r \in 0..queue.maxRetry : DeliverGarbled(w, r)
  \/ \E w \in Workers : MarkProcessing(w)
  \/ \E w \in Workers : ExecuteBefore(w)
  \/ \E w \in Workers : ExecuteAfter(w)
  \/ \E w \in Workers : WriteFailed(w)
  \/ \E w \in Workers : WriteCompleted(w)
  \/ \E w \in Workers : SendCallback(w)
  \/ \E w \in Workers : Ack(w)

Spec == Init /\ [][Next]_vars

\* ------------------------------------------------- the breaker on its own
\* The breaker under arbitrary traffic, from its construction: every worker
\* is a caller of processLLM, and the steps of an attempt that do not touch
\* the breaker are folded into NextCall.
InitBreaker ==
  /\ now = 1
  /\ cb = NewCircuitBreaker(1)
  /\ rec = NewRecord("")
  /\ queue = NewQueue(0, 0, MaxRetry)
  /\ pc = [w \in Workers |-> "llm"]
  /\ att = [w \in Workers |-> NoAttempt]
  /\ admitted = 0
  /\ call = NoCall

NextCall(w) ==
  /\ pc[w] \in {"llm_ok", "llm_failed"}
  /\ cb.generation < MaxGeneration
  /\ cb.counts.Requests < MaxWindow
  /\ pc' = [pc EXCEPT ![w] = "llm"]
  /\ att' = [att EXCEPT ![w] = NoAttempt]
  /\ UNCHANGED <<now, rec, cb, queue, admitted, call>>

NextBreaker ==
  \/ Tick
  \/ \E w \in Workers : ExecuteBefore(w)
  \/ \E w \in Workers : ExecuteAfter(w)
  \/ \E w \in Workers : NextCall(w)

SpecBreaker == InitBreaker /\ [][NextBreaker]_vars

\* ------------------------------------------------- one job, real budget
\* One job enqueued by CreateLLMTask for an id that has no row (the request
\* is not checked against the table): every attempt fails at the fetch.
\* client.Enqueue is called without a MaxRetry option and NewWorker passes
\* no retry count to asynq.Config, so the job carries the queue runtime's
\* default budget.
InitRetry ==
  /\ \E s \in BreakerSnapshots : now = s.now /\ cb = s.cb
  /\ rec = NoRecord
  /\ queue = NewQueue(1, 0, DefaultMaxRetry)
  /\ pc = [w \in Workers |-> "idle"]
  /\ att = [w \in Workers |-> NoAttempt]
  /\ admitted = cb.counts.Requests
  /\ call = NoCall

NextRetry ==
  \/ Tick
  \/ \E w \in Workers, r \in 0..queue.maxRetry : Deliver(w, r)
  \/ \E w \in Workers : Ack(w)

SpecRetry == InitRetry /\ [][NextRetry]_vars

\* ------------------------------------------------- calls of the store
\* Each Database method called once on arguments drawn from the sets below.
Alphabet == {"D", "r", "o", "p", ";"}

\* the strings over Alphabet of length at most n
Names(n) == UNION {[1..k -> Alphabet] : k \in 0..n}

URLPublic ==
  [text |-> "https://a.io/cb", parses |-> TRUE, scheme |-> "https",
   hostname |-> <<"a",".","i","o">>, resolves |-> TRUE,
   ips |-> <<ParseIPv4(93, 184, 216, 34)>>]

URLLoopback ==
  [text |-> "http://LocalHost/cb", parses |-> TRUE, scheme |-> "http",
   hostname |-> <<"L","o","c","a","l","H","o","s","t">>, resolves |-> TRUE,
   ips |-> <<ParseIPv4(127, 0, 0, 1)>>]

CallbackValues ==
  { StringValue(GoString("")), StringValue(URLPublic),
    StringValue(URLLoopback), BytesValue(URLLoopback) }

\* keys of the maps: two columns, a reserved word, a name the pattern
\* rejects and a well-formed name the table has no column for
FieldKeys == {ColStatus, ColCallbackURL, <<"o","r">>, <<"D",";">>, <<"D">>}

ValuesFor(field) ==
  IF field = ColCallbackURL THEN CallbackValues
  ELSE {StringValue(GoString("v"))}

UpdateMaps ==
  UNION { {u \in [S -> CallbackValues \cup {StringValue(GoString("v"))}] :
             \A f \in S : u[f] \in ValuesFor(f)} :
          S \in {S \in SUBSET FieldKeys : Cardinality(S) <= MaxFields} }

Request(op, tableName, updates) ==
  [stage |-> "request", op |-> op, table |-> tableName, updates |-> updates,
   err |-> "nil", sent |-> <<>>]

InitStore ==
  /\ now = 1
  /\ cb = NewCircuitBreaker(1)
  /\ rec = NewRow
  /\ queue = NewQueue(0, 0, MaxRetry)
  /\ pc = [w \in Workers |-> "idle"]
  /\ att = [w \in Workers |-> NoAttempt]
  /\ admitted = 0
  /\ \E t \in Names(MaxNameLen) :
       \/ \E op \in {"GetValuationRecord", "UpdateStatus", "UpdateFailedInfo"} :
            call = Request(op, t, <<>>)
       \/ \E u \in UpdateMaps : call = Request("UpdateRecord", t, u)

Returned(c, r) == [c EXCEPT !.stage = "done", !.err = r.err, !.sent = r.sent]

CallGetValuationRecord ==
  /\ call.stage = "request" /\ call.op = "GetValuationRecord"
  /\ \E db \in DBOutcomes :
       call' = Returned(call, DatabaseGetValuationRecord(call.table, db))
  /\ UNCHANGED <<now, rec, cb, queue, pc, att, admitted>>

CallUpdateStatus ==
  /\ call.stage = "request" /\ call.op = "UpdateStatus"
  /\ \E db \in DBOutcomes :
       LET r == DatabaseUpdateStatus(rec, call.table, db)
       IN /\ call' = Returned(call, r)
          /\ rec' = IF r.err # "nil" THEN rec
                    ELSE UpdateRecord(rec,
                           ColStatus :> StringValue(GoString(StatusProcessing)))
  /\ UNCHANGED <<now, cb, queue, pc, att, admitted>>

CallUpdateFailedInfo ==
  /\ call.stage = "request" /\ call.op = "UpdateFailedInfo"
  /\ \E db \in DBOutcomes :
       LET r == DatabaseUpdateFailedInfo(rec, call.table, db)
       IN /\ call' = Returned(call, r)
          /\ rec' = IF r.err # "nil" THEN rec
                    ELSE UpdateRecord(rec,
                           ColFailedInfo :> StringValue(GoString("info"))
                             @@ ColFailedTimes :> StringValue(GoString("1")))
  /\ UNCHANGED <<now, cb, queue, pc, att, admitted>>

CallUpdateRecord ==
  /\ call.stage = "request" /\ call.op = "UpdateRecord"
  /\ \E db \in DBOutcomes :
       \E r \in DatabaseUpdateRecord(rec, call.table, call.updates, db) :
         /\ call' = Returned(call, r)
         /\ rec' = IF r.err # "nil" THEN rec
                   ELSE UpdateRecord(rec, call.updates)
  /\ UNCHANGED <<now, cb, queue, pc, att, admitted>>

NextStore ==
  \/ CallGetValuationRecord
  \/ CallUpdateStatus
  \/ CallUpdateFailedInfo
  \/ CallUpdateRecord

SpecStore == InitStore /\ [][NextStore]_vars

\* ------------------------------------------------- the two name validators
\* validateTableName and validateFieldName applied once to a string drawn
\* from the strings over IdentAlphabet.
IdentAlphabet == {"D", "d", "r", "o", "O", "p", "_", ";"}

IdentNames(n) == UNION {[1..k -> IdentAlphabet] : k \in 0..n}

IdentRequest(op, name) ==
  [stage |-> "request", op |-> op, name |-> name, err |-> "nil"]

InitIdent ==
  /\ now = 1
  /\ cb = NewCircuitBreaker(1)
  /\ rec = NewRow
  /\ queue = NewQueue(0, 0, MaxRetry)
  /\ pc = [w \in Workers |-> "idle"]
  /\ att = [w \in Workers |-> NoAttempt]
  /\ admitted = 0
  /\ \E s \in IdentNames(MaxNameLen) :
       \E op \in {"validateTableName", "validateFieldName"} :
         call = IdentRequest(op, s)

CallValidateTableName ==
  /\ call.stage = "request" /\ call.op = "validateTableName"
  /\ call' = [call EXCEPT !.stage = "done",
                          !.err = validateTableName(call.name)]
  /\ UNCHANGED <<now, rec, cb, queue, pc, att, admitted>>

CallValidateFieldName ==
  /\ call.stage = "request" /\ call.op = "validateFieldName"
  /\ call' = [call EXCEPT !.stage = "done",
                          !.err = validateFieldName(call.name)]
  /\ UNCHANGED <<now, rec, cb, queue, pc, att, admitted>>

NextIdent ==
  \/ CallValidateTableName
  \/ CallValidateFieldName

SpecIdent == InitIdent /\ [][NextIdent]_vars

\* ------------------------------------------------- callback URLs and delivery
\* ValidateCallbackURL and sendCallback applied once to a URL drawn from the
\* sets below.  Addresses inside and just outside the forbidden ranges, in the
\* 16-byte and in the 4-byte form:
PublicAddresses ==
  { ParseIPv4(93, 184, 216, 34), <<8, 8, 8, 8>>,
    ParseIPv4(172, 15, 255, 255), ParseIPv4(172, 32, 0, 0),
    ParseIPv4(11, 0, 0, 0), ParseIPv4(198, 20, 0, 0),
    <<38,6,71,0,0,0,0,0,0,0,0,0,0,0,17,17>>,
    <<32,1,13,185,0,0,0,0,0,0,0,0,0,0,0,1>> }

InternalAddresses ==
  { ParseIPv4(10, 1, 2, 3), <<10, 0, 0, 5>>, ParseIPv4(127, 0, 0, 1),
    ParseIPv4(169, 254, 1, 1), ParseIPv4(172, 16, 0, 0),
    ParseIPv4(172, 31, 255, 255), ParseIPv4(172, 20, 1, 1),
    ParseIPv4(198, 19, 0, 7),
    <<0,0,0,0,0,0,0,0,0,0,0,0,0,0,0,1>>,
    <<32,1,13,184,0,0,0,0,0,0,0,0,0,0,0,1>>,
    <<253,0,0,0,0,0,0,0,0,0,0,0,0,0,0,1>>,
    <<254,128,0,0,0,0,0,0,0,0,0,0,0,0,0,1>> }

\* what net.LookupIP may answer for a DNS name: one to n addresses
Answers(n) ==
  UNION {[1..k -> PublicAddresses \cup InternalAddresses] : k \in 1..n}

MakeURL(scheme, name, hostname, resolves, ips) ==
  [text |-> scheme \o "://" \o name \o "/cb", parses |-> TRUE,
   scheme |-> scheme, hostname |-> hostname, resolves |-> resolves,
   ips |-> ips]

\* URLs of a DNS name under each scheme and each answer of the resolver, of
\* the names and literals that resolve to themselves, and a text url.Parse
\* rejects
URLs(n) ==
  {MakeURL(s, "a.io", <<"a",".","i","o">>, TRUE, ips) :
     s \in {"http", "https", "ftp"}, ips \in Answers(n)}
  \cup {MakeURL(s, "a.io", <<"a",".","i","o">>, FALSE, <<>>) :
          s \in {"http", "https", "ftp"}}
  \cup {MakeURL(s, "LocalHost", <<"L","o","c","a","l","H","o","s","t">>,
                TRUE, <<ParseIPv4(127, 0, 0, 1)>>) : s \in {"http", "ftp"}}
  \cup {MakeURL("https", "127.0.0.1",
                <<"1","2","7",".","0",".","0",".","1">>,
                TRUE, <<ParseIPv4(127, 0, 0, 1)>>),
        MakeURL("http", "10.1.2.3", <<"1","0",".","1",".","2",".","3">>,
                TRUE, <<ParseIPv4(10, 1, 2, 3)>>),
        MakeURL("http", "93.184.216.34",
                <<"9","3",".","1","8","4",".","2","1","6",".","3","4">>,
                TRUE, <<ParseIPv4(93, 184, 216, 34)>>),
        [text |-> "http://a.io:port/cb", parses |-> FALSE, scheme |-> "",
         hostname |-> <<>>, resolves |-> FALSE, ips |-> <<>>]}

\* the URLs handed to sendCallback: those of one address, and a public
\* address followed by an internal one
DeliveryURLs ==
  URLs(1)
  \cup {MakeURL("https", "a.io", <<"a",".","i","o">>, TRUE,
                <<ParseIPv4(93, 184, 216, 34), ParseIPv4(10, 1, 2, 3)>>)}

\* What the servers answer, request after request: a transport error or a
\* response with its status and Location header.
TransportError == [error |-> TRUE, status |-> 0, location |-> ""]

Response(status, location) ==
  [error |-> FALSE, status |-> status, location |-> location]

Redirects ==
  { Response(302, "http://169.254.169.254/latest"),
    Response(307, "http://169.254.169.254/latest") }

FinalResponses ==
  { TransportError, Response(200, ""), Response(500, ""), Response(302, "") }

\* up to n redirects and then an answer that is not followed
Scripts(n) ==
  UNION { {s \in [1..(k + 1) -> Redirects \cup FinalResponses] :
             /\ \A i \in 1..k : s[i] \in Redirects
             /\ s[k + 1] \in FinalResponses} : k \in 0..n }

\* http.Client.Do of the client NewTaskHandler builds: no CheckRedirect, so
\* the default policy follows a redirect that names a Location (up to ten,
\* more than MaxHops); 301, 302 and 303 turn a POST into a GET without body,
\* 307 and 308 repeat the method and the body.
RECURSIVE ClientDo(_, _, _, _, _)
ClientDo(method, url, script, i, sent) ==
  LET r == script[i]
      out == Append(sent, [method |-> method, url |-> url])
  IN IF r.error THEN [error |-> TRUE, status |-> 0, sent |-> out]
     ELSE IF r.status \in {301, 302, 303, 307, 308} /\ r.location # ""
          THEN ClientDo(IF r.status \in {301, 302, 303} THEN "GET"
                        ELSE method,
                        r.location, script, i + 1, out)
          ELSE [error |-> FALSE, status |-> r.status, sent |-> out]

\* sendCallback: the request is built from the text ValidateCallbackURL has
\* just parsed, so http.NewRequestWithContext does not fail on it.
sendCallback(u, script) ==
  IF ValidateCallbackURL(u) # "nil"
  THEN [err |-> "callback URL validation failed", sent |-> <<>>]
  ELSE LET resp == ClientDo("POST", u.text, script, 1, <<>>)
       IN IF resp.error
          THEN [err |-> "failed to send callback request", sent |-> resp.sent]
          ELSE IF resp.status # 200
               THEN [err |-> "callback request failed with status",
                     sent |-> resp.sent]
               ELSE [err |-> "nil", sent |-> resp.sent]

URLRequest(op, u, script) ==
  [stage |-> "request", op |-> op, url |-> u, script |-> script,
   err |-> "nil", sent |-> <<>>]

InitURL ==
  /\ now = 1
  /\ cb = NewCircuitBreaker(1)
  /\ rec = NewRow
  /\ queue = NewQueue(0, 0, MaxRetry)
  /\ pc = [w \in Workers |-> "idle"]
  /\ att = [w \in Workers |-> NoAttempt]
  /\ admitted = 0
  /\ \/ \E u \in URLs(MaxAddrs) :
          call = URLRequest("ValidateCallbackURL", u, <<>>)
     \/ \E u \in DeliveryURLs :
          \E s \in Scripts(MaxHops) : call = URLRequest("sendCallback", u, s)

CallValidateCallbackURL ==
  /\ call.stage = "request" /\ call.op = "ValidateCallbackURL"
  /\ call' = [call EXCEPT !.stage = "done",
                          !.err = ValidateCallbackURL(call.url)]
  /\ UNCHANGED <<now, rec, cb, queue, pc, att, admitted>>

CallSendCallback ==
  /\ call.stage = "request" /\ call.op = "sendCallback"
  /\ LET r == sendCallback(call.url, call.script)
     IN call' = [call EXCEPT !.stage = "done", !.err = r.err,
                             !.sent = r.sent]
  /\ UNCHANGED <<now, rec, cb, queue, pc, att, admitted>>

NextURL ==
  \/ CallValidateCallbackURL
  \/ CallSendCallback

SpecURL == InitURL /\ [][NextURL]_vars

\* ------------------------------------------------- one completion call
\* processLLM called once: the breaker, the HTTP request under the call's
\* context, the answer.  An error is its message and, where the message is
\* formatted from arguments, the formatted text as a sequence of characters.
NilError == [kind |-> "nil", text |-> <<>>]

NewError(kind) == [kind |-> kind, text |-> <<>>]

DigitChars == <<"0","1","2","3","4","5","6","7","8","9">>

\* the verb %d of a non-negative int
RECURSIVE Itoa(_)
Itoa(n) ==
  IF n < 10 THEN <<DigitChars[n + 1]>>
  ELSE Itoa(n \div 10) \o <<DigitChars[(n % 10) + 1]>>

\* errors.Errorf("LLM API request failed with status: %d, body: %s", ...)
StatusErrorf(status, body) ==
  [kind |-> "LLM API request failed with status",
   text |-> <<"L","L","M"," ","A","P","I"," ","r","e","q","u","e","s","t"," ",
              "f","a","i","l","e","d"," ","w","i","t","h"," ",
              "s","t","a","t","u","s",":"," ">>
            \o Itoa(status)
            \o <<",", " ", "b", "o", "d", "y", ":", " ">>
            \o body]

\* Bodies: the raw bytes, whether they can be read to the end, whether they
\* decode as JSON into the response struct, and the content of each choice
\* the decoded struct then holds.
Body(raw, readable, decodes, choices) ==
  [raw |-> raw, readable |-> readable, decodes |-> decodes,
   choices |-> choices]

ChoiceLists(n) == UNION {[1..k -> {"", "Hi", "Yo"}] : k \in 0..n}

RawTexts == { <<>>, <<"n","o"," ","k","e","y">> }

\* what the API does with the request: no answer (transport error), or a
\* status and a body
LLMAnswers(n) ==
  {[error |-> TRUE, status |-> 0, body |-> Body(<<>>, FALSE, FALSE, <<>>)]}
  \cup {[error |-> FALSE, status |-> 200,
         body |-> Body(<<"{","}">>, r, TRUE, c)] :
          r \in BOOLEAN, c \in ChoiceLists(n)}
  \cup {[error |-> FALSE, status |-> 200,
         body |-> Body(<<"<">>, r, FALSE, <<>>)] : r \in BOOLEAN}
  \cup {[error |-> FALSE, status |-> s, body |-> Body(t, r, FALSE, <<>>)] :
          s \in {201, 404, 500}, t \in RawTexts, r \in BOOLEAN}

\* mutant: an empty first choice is returned as the result
Completion_EmptyAccepted(resp) ==
  IF resp.status # 200
  THEN IF ~resp.body.readable
       THEN [result |-> "",
             err |-> NewError("failed to read error response body")]
       ELSE [result |-> "", err |-> StatusErrorf(resp.status, resp.body.raw)]
  ELSE IF ~resp.body.readable \/ ~resp.body.decodes
       THEN [result |-> "",
             err |-> NewError("failed to decode LLM API response")]
  ELSE IF Len(resp.body.choices) = 0
       THEN [result |-> "", err |-> NewError("empty response from LLM API")]
  ELSE [result |-> resp.body.choices[1], err |-> NilError]

\* the function handed to Execute, from the response of h.client.Do on
\* (handler.go 279-311)
Completion(resp) ==
  IF resp.status # 200
  THEN IF ~resp.body.readable
       THEN [result |-> "",
             err |-> NewError("failed to read error response body")]
       ELSE [result |-> "", err |-> StatusErrorf(resp.status, resp.body.raw)]
  ELSE IF ~resp.body.readable \/ ~resp.body.decodes
       THEN [result |-> "",
             err |-> NewError("failed to decode LLM API response")]
  ELSE IF Len(resp.body.choices) = 0 \/ resp.body.choices[1] = ""
       THEN [result |-> "", err |-> NewError("empty response from LLM API")]
  ELSE [result |-> resp.body.choices[1], err |-> NilError]

\* mutant: the call's context is not derived from the job's
CtxDone_Detached(c) == now >= c.deadline

\* ctx.Done() of context.WithTimeout(ctx, h.deepseek.Timeout): the parent is
\* done or the deadline has passed
CtxDone(c) == c.jobctx # "live" \/ now >= c.deadline

LLMCall(answer) ==
  [stage |-> "start", op |-> "processLLM", answer |-> answer,
   jobctx |-> "live", deadline |-> 0, generation |-> 0,
   got |-> "none",           \* history: what h.client.Do and the reads obtained
   cancelled |-> "none",     \* history: the stage at which the job was cancelled
   found |-> 0,              \* history: the breaker's generation at the return
   result |-> "", err |-> NilError]

InitLLM ==
  /\ \E s \in BreakerSnapshots : now = s.now /\ cb = s.cb
  /\ rec = NewRecord("")
  /\ queue = NewQueue(0, 0, MaxRetry)
  /\ pc = [w \in Workers |-> "idle"]
  /\ att = [w \in Workers |-> NoAttempt]
  /\ admitted = 0
  /\ \E a \in LLMAnswers(MaxChoices) : call = LLMCall(a)

LLMReturn(c, got, result, err) ==
  [c EXCEPT !.stage = "done", !.got = got, !.result = result, !.err = err,
            !.found = cb.generation]

\* processLLM up to the sending of the request: the context, beforeRequest
LLMStart ==
  /\ call.stage = "start"
  /\ LET b1 == currentState(cb, now)
         e == beforeRequestErr(b1)
     IN /\ cb' = beforeRequest(cb, now)
        /\ call' = IF e = "nil"
                   THEN [call EXCEPT !.stage = "inflight",
                                     !.deadline = now + CallTimeout,
                                     !.generation = b1.generation]
                   ELSE LLMReturn(call, "none", "",
                                  NewError(processLLMError(e)))
  /\ UNCHANGED <<now, rec, queue, pc, att, admitted>>

\* h.client.Do returns: a transport error, or the status line and headers
LLMRespond ==
  /\ call.stage = "inflight" /\ ~CtxDone(call)
  /\ IF call.answer.error
     THEN /\ call' = LLMReturn(call, "error", "",
                               NewError("failed to send LLM API request"))
          /\ cb' = afterRequest(cb, call.generation, FALSE, now)
     ELSE /\ call' = [call EXCEPT !.stage = "reading", !.got = "headers"]
          /\ cb' = cb
  /\ UNCHANGED <<now, rec, queue, pc, att, admitted>>

\* the body is read and the wrapped function returns
LLMReadBody ==
  /\ call.stage = "reading" /\ ~CtxDone(call)
  /\ LET r == Completion(call.answer)
     IN /\ call' = LLMReturn(call,
                             IF call.answer.body.readable THEN "body"
                             ELSE "headers",
                             r.result, r.err)
        /\ cb' = afterRequest(cb, call.generation, r.err = NilError, now)
  /\ UNCHANGED <<now, rec, queue, pc, att, admitted>>

\* mutant: a call ended by its context is not reported to the breaker
LLMAbort_Unrecorded ==
  /\ call.stage \in {"inflight", "reading"} /\ CtxDone(call)
  /\ LET r == IF call.stage = "inflight"
              THEN [result |-> "",
                    err |-> NewError("failed to send LLM API request")]
              ELSE Completion([call.answer EXCEPT !.body.readable = FALSE])
     IN call' = LLMReturn(call, call.got, r.result, r.err)
  /\ UNCHANGED <<now, rec, cb, queue, pc, att, admitted>>

\* the context is done while the request or the read of the body is pending:
\* h.client.Do, or the read, returns the context's error
LLMAbort ==
  /\ call.stage \in {"inflight", "reading"} /\ CtxDone(call)
  /\ LET r == IF call.stage = "inflight"
              THEN [result |-> "",
                    err |-> NewError("failed to send LLM API request")]
              ELSE Completion([call.answer EXCEPT !.body.readable = FALSE])
     IN call' = LLMReturn(call, call.got, r.result, r.err)
  /\ cb' = afterRequest(cb, call.generation, FALSE, now)
  /\ UNCHANGED <<now, rec, queue, pc, att, admitted>>

\* the queue runtime cancels the job's context (shutdown, or the job's
\* deadline) while the call is pending
JobCancel ==
  /\ call.stage \in {"inflight", "reading"} /\ call.jobctx = "live"
  /\ \E reason \in {"context canceled", "context deadline exceeded"} :
       call' = [call EXCEPT !.jobctx = reason, !.cancelled = call.stage]
  /\ UNCHANGED <<now, rec, cb, queue, pc, att, admitted>>

NextLLM ==
  \/ Tick
  \/ LLMStart
  \/ LLMRespond
  \/ LLMReadBody
  \/ LLMAbort
  \/ JobCancel

SpecLLM == InitLLM /\ [][NextLLM]_vars

\* the goroutine blocked in h.client.Do, or in the read, is woken by the
\* context and runs
SpecLLMFair == SpecLLM /\ WF_vars(LLMAbort)

\* ------------------------------------------------- the worker process
\* NewWorker, Worker.Run and Worker.Stop around the queue runtime's server.
\* The server is built with Concurrency: cfg.Queue.Concurrency, here
\* NumWorkers: that many worker goroutines, each taking a job when it is
\* free.  The queue starts with one job more than there are workers; a job
\* whose attempt fails is archived (no retry budget).
PoolJobs == NumWorkers + 1

NewWorker ==
  [op |-> "Worker",
   state |-> "new",       \* the server: new, active, stopped, closed
   run |-> "none",        \* Worker.Run: not called, blocking, returned
   err |-> "nil",         \* what Worker.Run returned
   stop |-> FALSE,        \* Worker.Stop has been called
   signal |-> FALSE]      \* SIGINT or SIGTERM has reached the process

InitServer ==
  /\ now = SnapshotIdle.now
  /\ cb = SnapshotIdle.cb
  /\ rec = NewRecord("")
  /\ queue = NewQueue(PoolJobs, 0, 0)
  /\ pc = [w \in Workers |-> "idle"]
  /\ att = [w \in Workers |-> NoAttempt]
  /\ admitted = 0
  /\ call = NewWorker

\* Worker.Run: server.Run starts the processor and then blocks until a
\* signal arrives; a server that cannot start returns the error at once
ServerRun ==
  /\ call.run = "none"
  /\ \/ call' = [call EXCEPT !.run = "blocking", !.state = "active"]
     \/ call' = [call EXCEPT !.run = "returned",
                             !.err = "failed to start server"]
  /\ UNCHANGED <<now, rec, cb, queue, pc, att, admitted>>

\* the processor of an active server hands a waiting job to a free worker
ServerDeliver(w, r) ==
  /\ call.state = "active"
  /\ Deliver(w, r)

\* Worker.Stop: server.Stop makes an active server stop taking jobs from the
\* queue and returns; attempts that are running go on
WorkerStop ==
  /\ call.run = "blocking" /\ ~call.stop
  /\ call' = [call EXCEPT !.stop = TRUE,
                          !.state = IF @ = "active" THEN "stopped" ELSE @]
  /\ UNCHANGED <<now, rec, cb, queue, pc, att, admitted>>

\* SIGINT or SIGTERM: server.Run stops waiting and begins the shutdown, the
\* processor takes no more jobs (cmd/worker/main.go calls Worker.Stop on the
\* same signal)
Signal ==
  /\ call.run = "blocking" /\ ~call.signal
  /\ call' = [call EXCEPT !.signal = TRUE, !.state = "closed"]
  /\ UNCHANGED <<now, rec, cb, queue, pc, att, admitted>>

\* the shutdown has waited for the running attempts (each ends within the
\* server's shutdown timeout): server.Run, and with it Worker.Run, returns nil
RunReturn ==
  /\ call.run = "blocking" /\ call.state = "closed"
  /\ \A w \in Workers : pc[w] = "idle"
  /\ call' = [call EXCEPT !.run = "returned", !.err = "nil"]
  /\ UNCHANGED <<now, rec, cb, queue, pc, att, admitted>>

\* the steps of the worker process itself
ServerStep ==
  \/ ServerRun
  \/ \E w \in Workers, r \in 0..queue.maxRetry : ServerDeliver(w, r)
  \/ \E w \in Workers : MarkProcessing(w)
  \/ \E w \in Workers : ExecuteBefore(w)
  \/ \E w \in Workers : ExecuteAfter(w)
  \/ \E w \in Workers : WriteFailed(w)
  \/ \E w \in Workers : WriteCompleted(w)
  \/ \E w \in Workers : Ack(w)
  \/ RunReturn

NextServer ==
  \/ ServerStep
  \/ WorkerStop
  \/ Signal

SpecServer == InitServer /\ [][NextServer]_vars

\* ------------------------------------------------- the retry delay
\* The queue runtime after a failed attempt of a job: it calls the configured
\* RetryDelayFunc with the number of times the job has been retried so far
\* (0 after the first attempt), with the error and the task, schedules the
\* job that long from now and counts the retry.  Durations are in seconds.
RetryDelayFunc(n, err, t) == n * Minute

HandlerErrors ==
  { "failed to unmarshal payload", "failed to get valuation record",
    BreakerOpenMsg }

FailedJob(payload, err) ==
  [op |-> "retry", stage |-> "failed", payload |-> payload, err |-> err,
   retried |-> 0, delay |-> 0]

InitDelay ==
  /\ now = 1
  /\ cb = NewCircuitBreaker(1)
  /\ rec = NoRecord
  /\ queue = NewQueue(0, 0, DefaultMaxRetry)
  /\ pc = [w \in Workers |-> "idle"]
  /\ att = [w \in Workers |-> NoAttempt]
  /\ admitted = 0
  /\ \E p \in Payloads, e \in HandlerErrors : call = FailedJob(p, e)

\* the attempt returned an error and the retry budget is not spent
ScheduleRetry ==
  /\ call.stage = "failed" /\ call.retried < queue.maxRetry
  /\ call' = [call EXCEPT !.stage = "scheduled",
                          !.delay = RetryDelayFunc(call.retried, call.err,
                                                   call.payload),
                          !.retried = @ + 1]
  /\ UNCHANGED <<now, rec, cb, queue, pc, att, admitted>>

\* the delay is over, the job is delivered again and its attempt fails
Redeliver ==
  /\ call.stage = "scheduled"
  /\ \E e \in HandlerErrors :
       call' = [call EXCEPT !.stage = "failed", !.err = e]
  /\ UNCHANGED <<now, rec, cb, queue, pc, att, admitted>>

\* the budget is spent: the job is archived
ArchiveJob ==
  /\ call.stage = "failed" /\ call.retried >= queue.maxRetry
  /\ call' = [call EXCEPT !.stage = "archived"]
  /\ UNCHANGED <<now, rec, cb, queue, pc, att, admitted>>

NextDelay ==
  \/ ScheduleRetry
  \/ Redeliver
  \/ ArchiveJob

SpecDelay == InitDelay /\ [][NextDelay]_vars

\* ------------------------------------------------- the HTTP handlers
\* CreateLLMTask and ListTasks called once on a request drawn from the sets
\* below.  A JSON body is what json.Unmarshal makes of it: not decodable
\* into the request struct at all, or the keys it carries with their values
\* (an absent key leaves the field at its zero value).
CreateBody(valid, keys, tableName, id) ==
  [valid |-> valid, keys |-> keys,
   TableName |-> IF "table_name" \in keys THEN tableName ELSE "",
   ID |-> IF "id" \in keys THEN id ELSE 0]

CreateBodies ==
  {CreateBody(FALSE, {}, "", 0)}
  \cup {CreateBody(TRUE, k, t, i) :
          k \in SUBSET {"table_name", "id"},
          t \in {"", "valuation", "drop"}, i \in {-3, 0, 7, 123}}

\* mutant: the decode without the required check
ShouldBindJSON_DecodeOnly(body) ==
  IF ~body.valid THEN "invalid request body" ELSE "nil"

\* c.ShouldBindJSON into types.CreateTaskRequest: the decode, then the
\* binding:"required" check, which fails on a field that holds its zero value
ShouldBindJSON(body) ==
  IF ~body.valid THEN "invalid request body"
  ELSE IF body.TableName = ""
       THEN "Field validation for 'TableName' failed on the 'required' tag"
  ELSE IF body.ID = 0
       THEN "Field validation for 'ID' failed on the 'required' tag"
  ELSE "nil"

\* task.NewLLMTask: the task type with the marshalled LLMPayload
NewLLMTask(tableName, id) ==
  [type |-> "llm:process", payload |-> [table_name |-> tableName, id |-> id]]

\* the query of ListTasks as c.ShouldBindQuery binds it: not bindable (a
\* limit or offset that is no integer), or the four fields, an absent
\* parameter being the zero value
ListQuery(valid, status, queueName, limit, offset) ==
  [valid |-> valid, Status |-> status, QueueName |-> queueName,
   Limit |-> limit, Offset |-> offset]

Limits == {-1, 0, 1, 3, 10, 100, 101, 1000}

Offsets == {-7, -1, 0, 2, 3, 10, 250}

Statuses ==
  {"", "pending", "active", "completed", "failed", "retry", "archived",
   "Pending", "done"}

ListQueries ==
  {ListQuery(FALSE, "", "", 0, 0)}
  \cup {ListQuery(TRUE, s, q, l, o) :
          s \in Statuses, q \in {"", "critical"}, l \in Limits, o \in Offsets}

\* Go's integer division (the quotient is truncated toward zero), b > 0
GoDiv(a, b) == IF a >= 0 THEN a \div b ELSE -((-a) \div b)

\* task.go 163-167
NormalLimit(limit) ==
  IF limit <= 0 THEN DefaultLimit
  ELSE IF limit > MaxLimit THEN MaxLimit
  ELSE limit

\* mutant: a negative offset is kept
NormalOffset_Unclamped(offset) == offset

\* task.go 169-171
NormalOffset(offset) == IF offset < 0 THEN 0 ELSE offset

\* task.go 173-176
QueueName(name) == IF name # "" THEN name ELSE "default"

\* task.go 179-196
TaskState(status) ==
  CASE status = "pending" -> "TaskStatePending"
    [] status = "active" -> "TaskStateActive"
    [] status = "completed" -> "TaskStateCompleted"
    [] status = "failed" -> "TaskStateRetry"
    [] status = "retry" -> "TaskStateRetry"
    [] status = "archived" -> "TaskStateArchived"
    [] OTHER -> "TaskStateActive"

\* task.go 205-218
ListMethod(state) ==
  CASE state = "TaskStatePending" -> "ListPendingTasks"
    [] state = "TaskStateActive" -> "ListActiveTasks"
    [] state = "TaskStateCompleted" -> "ListCompletedTasks"
    [] state = "TaskStateRetry" -> "ListRetryTasks"
    [] state = "TaskStateArchived" -> "ListArchivedTasks"
    [] OTHER -> "ListActiveTasks"

APIRequest(op, body, query, backend) ==
  [stage |-> "request", op |-> op, body |-> body, query |-> query,
   backend |-> backend,      \* what the queue client or inspector answers
   code |-> 0,               \* the HTTP status of the answer
   status |-> "",            \* Data.Status of the answer of CreateLLMTask
   limit |-> 0, offset |-> 0,   \* Data.Limit, Data.Offset of ListTasks
   enqueued |-> <<>>,        \* the tasks handed to h.client.Enqueue
   asked |-> <<>>]           \* the calls of the inspector

InitAPI ==
  /\ now = 1
  /\ cb = NewCircuitBreaker(1)
  /\ rec = NewRecord("")
  /\ queue = NewQueue(0, 0, DefaultMaxRetry)
  /\ pc = [w \in Workers |-> "idle"]
  /\ att = [w \in Workers |-> NoAttempt]
  /\ admitted = 0
  /\ \E backend \in {"ok", "error"} :
       \/ \E b \in CreateBodies :
            call = APIRequest("CreateLLMTask", b,
                              ListQuery(FALSE, "", "", 0, 0), backend)
       \/ \E q \in ListQueries :
            call = APIRequest("ListTasks", CreateBody(FALSE, {}, "", 0), q,
                              backend)

\* task.go 48-96
CreateLLMTask ==
  /\ call.stage = "request" /\ call.op = "CreateLLMTask"
  /\ IF ShouldBindJSON(call.body) # "nil"
     THEN /\ call' = [call EXCEPT !.stage = "done", !.code = 400]
          /\ UNCHANGED queue
     ELSE LET t == NewLLMTask(call.body.TableName, call.body.ID)
          IN IF call.backend = "error"
             THEN /\ call' = [call EXCEPT !.stage = "done", !.code = 500,
                                          !.enqueued = <<t>>]
                  /\ UNCHANGED queue
             ELSE /\ call' = [call EXCEPT !.stage = "done", !.code = 200,
                                          !.status = "enqueued",
                                          !.enqueued = <<t>>]
                  /\ queue' = [queue EXCEPT !.waiting["json"][0] = @ + 1]
  /\ UNCHANGED <<now, rec, cb, pc, att, admitted>>

\* task.go 148-261
ListTasks ==
  /\ call.stage = "request" /\ call.op = "ListTasks"
  /\ IF ~call.query.valid
     THEN call' = [call EXCEPT !.stage = "done", !.code = 400]
     ELSE LET limit == NormalLimit(call.query.Limit)
              offset == NormalOffset(call.query.Offset)
              ask == [method |-> ListMethod(TaskState(call.query.Status)),
                      queue |-> QueueName(call.query.QueueName),
                      PageSize |-> limit,
                      Page |-> GoDiv(offset, limit) + 1]
          IN IF call.backend = "error"
             THEN call' = [call EXCEPT !.stage = "done", !.code = 500,
                                       !.asked = <<ask>>]
             ELSE call' = [call EXCEPT !.stage = "done", !.code = 200,
                                       !.limit = limit, !.offset = offset,
                                       !.asked = <<ask>>]
  /\ UNCHANGED <<now, rec, cb, queue, pc, att, admitted>>

NextAPI ==
  \/ CreateLLMTask
  \/ ListTasks

SpecAPI == InitAPI /\ [][NextAPI]_vars

\* ------------------------------------------------- the configuration
\* A float64 of the configuration file: NaN (the YAML scalar .nan), or a
\* number, kept in hundredths.
NaN == [nan |-> TRUE, hundredths |-> 0]

Float64(hundredths) == [nan |-> FALSE, hundredths |-> hundredths]

\* Go's x <= y and x > y on float64: every comparison with NaN is false
FloatLeq(x, y) == ~x.nan /\ ~y.nan /\ x.hundredths <= y.hundredths

FloatGt(x, y) == ~x.nan /\ ~y.nan /\ x.hundredths > y.hundredths

CircuitBreakerConfig(enabled, maxRequests, interval, timeout, failThreshold) ==
  [Enabled |-> enabled, MaxRequests |-> maxRequests, Interval |-> interval,
   Timeout |-> timeout, FailThreshold |-> failThreshold]

\* durations in minutes
BreakerConfigs ==
  {CircuitBreakerConfig(e, m, i, t, f) :
     e \in BOOLEAN, m \in {-1, 0, 2}, i \in {-1, 0, 1}, t \in {-1, 0, 2},
     f \in {NaN, Float64(-50), Float64(0), Float64(1), Float64(50),
            Float64(100), Float64(101)}}

DeepseekConfig(apiKey, baseURL, parses, timeout, model, maxTokens, breaker) ==
  [APIKey |-> apiKey, BaseURL |-> baseURL, parses |-> parses,
   Timeout |-> timeout, Model |-> model, MaxTokens |-> maxTokens,
   CircuitBreaker |-> breaker]

\* the configurations whose fields other than the breaker's are all in
\* order, and those with one of them out of order
DeepseekConfigs ==
  {DeepseekConfig(k, u, p, t, m, n, b) :
     k \in {"key"}, u \in {"https://api.deepseek.com"}, p \in {TRUE},
     t \in {30}, m \in {"deepseek-chat"}, n \in {100}, b \in BreakerConfigs}
  \cup {DeepseekConfig("", "https://api.deepseek.com", TRUE, 30,
                       "deepseek-chat", 100, b) : b \in BreakerConfigs}
  \cup {DeepseekConfig("key", "", TRUE, 30, "deepseek-chat", 100, b) :
          b \in BreakerConfigs}
  \cup {DeepseekConfig("key", "https://api.deepseek.com/%zz", FALSE, 30,
                       "deepseek-chat", 100, b) : b \in BreakerConfigs}
  \cup {DeepseekConfig("key", "https://api.deepseek.com", TRUE, 0,
                       "deepseek-chat", 100, b) : b \in BreakerConfigs}
  \cup {DeepseekConfig("key", "https://api.deepseek.com", TRUE, 30, "", 100,
                       b) : b \in BreakerConfigs}
  \cup {DeepseekConfig("key", "https://api.deepseek.com", TRUE, 30,
                       "deepseek-chat", 0, b) : b \in BreakerConfigs}

\* config.go 224-271
validateDeepseekConfig(cfg) ==
  IF cfg.APIKey = "" THEN "api_key is required"
  ELSE IF cfg.BaseURL = "" THEN "base_url is required"
  ELSE IF ~cfg.parses THEN "base_url is invalid"
  ELSE IF cfg.Timeout <= 0 THEN "timeout must be positive"
  ELSE IF cfg.Model = "" THEN "model is required"
  ELSE IF cfg.MaxTokens <= 0 THEN "max_tokens must be positive"
  ELSE IF ~cfg.CircuitBreaker.Enabled THEN "nil"
  ELSE IF cfg.CircuitBreaker.MaxRequests <= 0
       THEN "circuit_breaker.max_requests must be positive"
  ELSE IF cfg.CircuitBreaker.Interval <= 0
       THEN "circuit_breaker.interval must be positive"
  ELSE IF cfg.CircuitBreaker.Timeout <= 0
       THEN "circuit_breaker.timeout must be positive"
  ELSE IF \/ FloatLeq(cfg.CircuitBreaker.FailThreshold, Float64(0))
          \/ FloatGt(cfg.CircuitBreaker.FailThreshold, Float64(100))
       THEN "circuit_breaker.fail_threshold must be between 0 and 1"
  ELSE "nil"

ConfigCall(cfg) ==
  [stage |-> "loaded", op |-> "validateDeepseekConfig", cfg |-> cfg,
   err |-> "nil"]

InitConfig ==
  /\ now = 1
  /\ cb = NewCircuitBreaker(1)
  /\ rec = NewRecord("")
  /\ queue = NewQueue(0, 0, MaxRetry)
  /\ pc = [w \in Workers |-> "idle"]
  /\ att = [w \in Workers |-> NoAttempt]
  /\ admitted = 0
  /\ \E cfg \in DeepseekConfigs : call = ConfigCall(cfg)

CallValidateDeepseekConfig ==
  /\ call.stage = "loaded"
  /\ call' = [call EXCEPT !.stage = "validated",
                          !.err = validateDeepseekConfig(call.cfg)]
  /\ UNCHANGED <<now, rec, cb, queue, pc, att, admitted>>

NextConfig == CallValidateDeepseekConfig

SpecConfig == InitConfig /\ [][NextConfig]_vars

\* ------------------------------------------------- the range test
\* ipInRange called once on an address and one of the forbidden ranges.
\* The addresses: IPv4 addresses whose bytes lie on and around the bounds of
\* the ranges, in the four-byte and in the sixteen-byte form net.IP has for
\* them, and IPv6 addresses likewise.
IPv4Addresses ==
  {<<a, b, c, d>> :
     a \in {0, 1, 9, 10, 11, 100, 127, 169, 172, 192, 198, 203, 223, 224,
            239, 240, 255},
     b \in {0, 15, 16, 17, 18, 19, 20, 31, 32, 51, 63, 64, 127, 128, 168, 254,
            255},
     c \in {0, 1, 2, 3, 100, 113, 255},
     d \in {0, 255}}

IPv6Addresses ==
  {<<a, b, c[1], c[2], e, e, e, e, e, e, m[1], m[2], e, e, e, z>> :
     a \in {0, 32, 251, 252, 253, 254, 255},
     b \in {0, 1, 127, 128, 191, 192, 255},
     c \in {<<0, 0>>, <<13, 183>>, <<13, 184>>, <<13, 185>>},
     e \in {0, 255},
     m \in {<<0, 0>>, <<255, 254>>},
     z \in {0, 1, 2}}

\* the addresses 10.0.0.0 to 10.0.0.2 written as IPv6 (::a00:0 ...) and the
\* IPv4-mapped addresses, which net.IP holds in sixteen bytes
MappedAddresses ==
  {ParseIPv4(ip[1], ip[2], ip[3], ip[4]) :
     ip \in {<<10, 0, 0, 0>>, <<10, 255, 255, 255>>, <<11, 0, 0, 0>>,
             <<172, 15, 255, 255>>, <<172, 16, 0, 0>>, <<172, 31, 255, 255>>,
             <<172, 32, 0, 0>>, <<127, 0, 0, 1>>, <<8, 8, 8, 8>>,
             <<192, 0, 2, 255>>, <<192, 0, 3, 0>>, <<100, 63, 255, 255>>,
             <<100, 64, 0, 0>>, <<0, 0, 0, 0>>, <<0, 0, 0, 1>>}}
  \cup {<<0,0,0,0,0,0,0,0,0,0,0,0,10,0,0,z>> : z \in {0, 1, 2}}

RangeCall(ip, j) ==
  [stage |-> "request", op |-> "ipInRange", ip |-> ip, range |-> j,
   result |-> FALSE]

InitRange ==
  /\ now = 1
  /\ cb = NewCircuitBreaker(1)
  /\ rec = NewRecord("")
  /\ queue = NewQueue(0, 0, MaxRetry)
  /\ pc = [w \in Workers |-> "idle"]
  /\ att = [w \in Workers |-> NoAttempt]
  /\ admitted = 0
  /\ \E j \in 1..Len(forbiddenIPRanges) :
       \/ \E ip \in IPv4Addresses : call = RangeCall(ip, j)
       \/ \E ip \in IPv6Addresses : call = RangeCall(ip, j)
       \/ \E ip \in MappedAddresses : call = RangeCall(ip, j)

\* url.go 101-107: the call of ipInRange in the loop over the ranges
CallIpInRange ==
  /\ call.stage = "request" /\ call.op = "ipInRange"
  /\ call' = [call EXCEPT
                !.stage = "done",
                !.result = ipInRange(call.ip,
                                     forbiddenIPRanges[call.range].start,
                                     forbiddenIPRanges[call.range].end)]
  /\ UNCHANGED <<now, rec, cb, queue, pc, att, admitted>>

NextRange == CallIpInRange

SpecRange == InitRange /\ [][NextRange]_vars

\* ------------------------------------------------- the handler's breaker
\* NewTaskHandler on a validated configuration, then the traffic of its
\* workers through the breaker it built.
BreakerSettings(name, maxRequests, interval, timeout, failThreshold) ==
  [Name |-> name, MaxRequests |-> maxRequests, Interval |-> interval,
   Timeout |-> timeout, FailThreshold |-> failThreshold]

NoSettings == BreakerSettings("", 0, 0, 0, Float64(0))

\* circuitbreaker.go 64-72; the breaker operators above work with these
\* settings
DefaultLLMCircuitBreaker ==
  BreakerSettings("llm-api", MaxRequests, Interval, Timeout,
                  Float64((100 * FailThresholdNum) \div FailThresholdDen))

\* uint32(n) for the values of a validated configuration, 0 < n < 2^31
Uint32(n) == n

\* mutant: the configured values are used whether the breaker is enabled or
\* not
HandlerSettings_FromConfig(cfg) ==
  BreakerSettings("llm-api", Uint32(cfg.CircuitBreaker.MaxRequests),
                  cfg.CircuitBreaker.Interval, cfg.CircuitBreaker.Timeout,
                  cfg.CircuitBreaker.FailThreshold)

\* handler.go 53-71: the settings of the breaker NewTaskHandler creates
HandlerSettings(cfg) ==
  IF cfg.CircuitBreaker.Enabled
  THEN BreakerSettings("llm-api", Uint32(cfg.CircuitBreaker.MaxRequests),
                       cfg.CircuitBreaker.Interval,
                       cfg.CircuitBreaker.Timeout,
                       cfg.CircuitBreaker.FailThreshold)
  ELSE DefaultLLMCircuitBreaker

\* configurations with the breaker disabled and any parameters, and one
\* with it enabled
HandlerConfigs ==
  {DeepseekConfig("key", "https://api.deepseek.com", TRUE, 30,
                  "deepseek-chat", 100, b) :
     b \in {CircuitBreakerConfig(FALSE, m, 0, t, f) :
              m \in {0, 10}, t \in {0, 5},
              f \in {Float64(0), Float64(90)}}
           \cup {CircuitBreakerConfig(TRUE, 2, 1, 2, Float64(50))}}

HandlerCall(cfg) ==
  [stage |-> "validated", op |-> "NewTaskHandler", cfg |-> cfg,
   settings |-> NoSettings]

InitHandler ==
  /\ now = 1
  /\ cb = NewCircuitBreaker(1)
  /\ rec = NewRecord("")
  /\ queue = NewQueue(0, 0, MaxRetry)
  /\ pc = [w \in Workers |-> "idle"]
  /\ att = [w \in Workers |-> NoAttempt]
  /\ admitted = 0
  /\ \E cfg \in HandlerConfigs :
       /\ validateDeepseekConfig(cfg) = "nil"
       /\ call = HandlerCall(cfg)

\* handler.go 48-79: one breaker is created and kept in the handler, whose
\* HandleLLMTask the workers run; the workers start calling processLLM
CallNewTaskHandler ==
  /\ call.stage = "validated"
  /\ call' = [call EXCEPT !.stage = "built",
                          !.settings = HandlerSettings(call.cfg)]
  /\ cb' = NewCircuitBreaker(now)
  /\ pc' = IF HandlerSettings(call.cfg) = DefaultLLMCircuitBreaker
           THEN [w \in Workers |-> "llm"]
           ELSE pc
  /\ UNCHANGED <<now, rec, queue, att, admitted>>

NextHandler ==
  \/ CallNewTaskHandler
  \/ Tick
  \/ \E w \in Workers : ExecuteBefore(w)
  \/ \E w \in Workers : ExecuteAfter(w)
  \/ \E w \in Workers : NextCall(w)

SpecHandler == InitHandler /\ [][NextHandler]_vars

\* ------------------------------------------------- a call among others
\* One call of processLLM followed through its steps while the handler's
\* other attempts (every worker makes one) call through the same breaker.
InitShared ==
  /\ \E s \in BreakerSnapshots : now = s.now /\ cb = s.cb
  /\ rec = NewRecord("")
  /\ queue = NewQueue(0, 0, MaxRetry)
  /\ pc = [w \in Workers |-> "llm"]
  /\ att = [w \in Workers |-> NoAttempt]
  /\ admitted = cb.counts.Requests
  /\ \E a \in LLMAnswers(MaxChoices) : call = LLMCall(a)

NextShared ==
  \/ Tick
  \/ LLMStart
  \/ LLMRespond
  \/ LLMReadBody
  \/ LLMAbort
  \/ JobCancel
  \/ \E w \in Workers : ExecuteBefore(w)
  \/ \E w \in Workers : ExecuteAfter(w)

SpecShared == InitShared /\ [][NextShared]_vars

\* =================================================================== claims
Wrote(a) == a.after # <<>>         \* the attempt's outcome write succeeded

\* C1: an attempt whose completion call returned text R and whose final
\* write succeeded has left the record Completed with report R and
\* current_task_node one above the value it fetched, by one UpdateRecord
\* call, and returns nil.
C1_SuccessPath ==
  \A w \in Workers :
    (pc[w] \in {"callback", "returned"} /\ att[w].result # "" /\ Wrote(att[w]))
    => /\ att[w].after[1].status = StatusCompleted
       /\ att[w].after[1].report = att[w].result
       /\ att[w].after[1].current_task_node = att[w].CurrentTaskNode + 1
       /\ Len(att[w].updates) = 1
       /\ DOMAIN att[w].updates[1] = {"status", "report", "current_task_node"}
       /\ (pc[w] = "returned" => att[w].ret = <<>>)

C1_Witness ==
  \E w \in Workers :
    /\ pc[w] = "returned" /\ att[w].result = "ok" /\ Wrote(att[w])
    /\ att[w].ret = <<>> /\ att[w].after[1].current_task_node > 1

\* C2 as stated: whenever the completion call failed, the attempt made one
\* UpdateRecord call setting Failed, failed_times + 1 and the error text,
\* and returned the completion error.
C2_Original ==
  \A w \in Workers :
    (pc[w] = "returned" /\ att[w].err # "nil")
    => /\ Len(att[w].updates) = 1
       /\ att[w].updates[1].status = StatusFailed
       /\ att[w].updates[1].failed_times = att[w].FailedTimes + 1
       /\ att[w].updates[1].failed_info = att[w].err
       /\ att[w].ret = <<"failed to process LLM", att[w].err>>

\* C2 amended: the one UpdateRecord call is made as stated; the completion
\* error is what is returned when that write succeeds (the record is then
\* Failed with the incremented count and the error text), the write error
\* is returned (and the record not written) when it fails; never nil.
C2_FailurePath ==
  \A w \in Workers :
    (pc[w] = "returned" /\ att[w].err # "nil")
    => /\ Len(att[w].updates) = 1
       /\ DOMAIN att[w].updates[1] = {"status", "failed_times", "failed_info"}
       /\ att[w].updates[1].status = StatusFailed
       /\ att[w].updates[1].failed_times = att[w].FailedTimes + 1
       /\ att[w].updates[1].failed_info = att[w].err
       /\ att[w].ret # <<>>
       /\ IF Wrote(att[w])
          THEN /\ att[w].ret = <<"failed to process LLM", att[w].err>>
               /\ att[w].after[1].status = StatusFailed
               /\ att[w].after[1].failed_times = att[w].FailedTimes + 1
               /\ att[w].after[1].failed_info = att[w].err
          ELSE att[w].ret = <<"failed to update failure information">>

C2_Witness ==
  \E w \in Workers :
    /\ pc[w] = "returned" /\ att[w].err \in LLMErrors /\ Wrote(att[w])
    /\ att[w].FailedTimes > 0
    /\ att[w].ret = <<"failed to process LLM", att[w].err>>

\* C3: the step that ends sendCallback, whatever its outcome, leaves the
\* record as it is and returns nil, and the queue runtime then completes the
\* job without scheduling a retry.
C3_CallbackNeverFails ==
  [][\A w \in Workers :
       /\ (pc[w] = "callback" /\ pc'[w] # "callback")
          => /\ pc'[w] = "returned"
             /\ att'[w].callback \in CallbackOutcomes
             /\ att'[w].ret = <<>>
             /\ att'[w].updates = att[w].updates
             /\ rec' = rec
             /\ queue' = queue
       /\ (pc[w] = "returned" /\ att[w].callback # "none" /\ pc'[w] # "returned")
          => /\ queue'.waiting = queue.waiting
             /\ queue'.archived = queue.archived
             /\ queue'.completed = queue.completed + 1
             /\ rec' = rec]_vars

C3_Witness ==
  \E w \in Workers :
    /\ pc[w] = "returned"
    /\ att[w].callback = "callback URL validation failed"
    /\ att[w].ret = <<>>
    /\ att[w].after[1].status = StatusCompleted

\* C4 as stated: the record's status changes only along
\* Pending -> Processing -> {Completed | Failed}.
C4_Original ==
  [][rec'.status # rec.status
     => <<rec.status, rec'.status>> \in
          { <<StatusPending, StatusProcessing>>,
            <<StatusProcessing, StatusCompleted>>,
            <<StatusProcessing, StatusFailed>> }]_vars

\* C4 amended: a status is never set back to Pending and a Pending record
\* only moves to Processing; Completed or Failed is written only by an
\* attempt that has written Processing itself; and any attempt moves the
\* record to Processing whatever its status, Completed and Failed included.
C4_StatusWrites ==
  [][/\ rec'.status # rec.status
        => /\ rec'.status # StatusPending
           /\ rec.status = StatusPending => rec'.status = StatusProcessing
           /\ rec'.status = StatusProcessing
                => \E w \in Workers : pc[w] = "mark" /\ pc'[w] = "llm"
           /\ rec'.status \in {StatusCompleted, StatusFailed}
                => \E w \in Workers :
                     /\ pc[w] = IF rec'.status = StatusCompleted
                                THEN "llm_ok" ELSE "llm_failed"
                     /\ pc'[w] \in {"callback", "returned"}
     /\ \A w \in Workers :
          (pc[w] = "mark" /\ pc'[w] = "llm") => rec'.status = StatusProcessing]_vars

C4_Witness ==
  /\ rec.status = StatusProcessing
  /\ rec.failed_times > 0
  /\ rec.report # ""

\* The state Execute works on at this moment (what State() reports).
Elapsed == cb.expiry < now
TripRule(requests, failures) ==
  /\ requests >= MinRequests
  /\ failures * FailThresholdDen >= FailThresholdNum * requests
Calls(w) == pc[w] = "llm" /\ pc'[w] # "llm"            \* beforeRequest ran
Records(w) == pc[w] = "inflight" /\ pc'[w] # "inflight"  \* afterRequest ran
Current(w) == att[w].generation = currentState(cb, now).generation

\* C5: a call that finds the breaker Open is rejected with the breaker-open
\* error and the wrapped function (the HTTP request) is not invoked.
C5_OpenRejects ==
  \A w \in Workers :
    att[w].seen = StateOpen
    => /\ ~att[w].executed
       /\ pc[w] \notin {"inflight", "llm_ok", "callback"}
       /\ att[w].cberr = ErrOpenState
       /\ att[w].err = BreakerOpenMsg
       /\ att[w].result = ""

C5_Witness ==
  \E w \in Workers :
    /\ att[w].seen = StateOpen /\ pc[w] = "llm_failed" /\ ~att[w].executed
    /\ cb.state = StateOpen /\ ~Elapsed

\* C6 as stated: after the outcome of any call is recorded the breaker is
\* not Closed with requests >= 5 and failures/requests >= fail_threshold.
C6_Original ==
  [][\A w \in Workers :
       Records(w)
       => ~(cb'.state = StateClosed
            /\ TripRule(cb'.counts.Requests, cb'.counts.TotalFailures))]_vars

\* C6 amended: the rule is evaluated when the failure of a call of the
\* running window is recorded in Closed: after that the breaker is not Closed
\* with counts satisfying it (a success, or the outcome of a call of an
\* earlier window, does not evaluate it); and Closed moves to Open only by a
\* recorded failure whose counts (the failure included) satisfy requests >= 5
\* and the ratio.
C6_TripRule ==
  [][/\ \A w \in Workers :
          (Records(w) /\ pc'[w] = "llm_failed" /\ Current(w))
          => ~(cb'.state = StateClosed
               /\ TripRule(cb'.counts.Requests, cb'.counts.TotalFailures))
     /\ (cb.state = StateClosed /\ cb'.state # StateClosed)
          => /\ cb'.state = StateOpen
             /\ ~(Interval # 0 /\ Elapsed)
             /\ TripRule(cb.counts.Requests, cb.counts.TotalFailures + 1)
             /\ \E w \in Workers : Records(w) /\ pc'[w] = "llm_failed"]_vars

C6_Witness ==
  /\ cb.state = StateClosed
  /\ cb.counts.Requests >= MinRequests
  /\ cb.counts.TotalFailures > 0
  /\ ~TripRule(cb.counts.Requests, cb.counts.TotalFailures)
  /\ \E w \in Workers : pc[w] = "llm_failed" /\ att[w].executed

\* C7: while the breaker is Half-Open no more than max_requests calls have
\* been let through in that generation, whatever the number of workers, and
\* recording the failure of one of them puts the breaker in Open.
C7_HalfOpenQuota ==
  [][/\ cb'.state = StateHalfOpen => admitted' <= MaxRequests
     /\ \A w \in Workers :
          (Records(w) /\ pc'[w] = "llm_failed"
             /\ att[w].seen = StateHalfOpen /\ Current(w))
          => cb'.state = StateOpen /\ cb'.generation = att[w].generation + 1
     /\ \A w \in Workers :
          (Calls(w) /\ cb'.state = StateHalfOpen)
          => (pc'[w] = "inflight" <=> admitted' = Admitted(cb, cb', admitted) + 1)]_vars

C7_Witness ==
  /\ cb.state = StateHalfOpen
  /\ admitted = MaxRequests
  /\ \E w \in Workers :
       pc[w] = "llm_failed" /\ att[w].cberr = ErrTooManyRequests

\* C8 as stated: after the open timeout a call is admitted as a trial, and a
\* trial call that succeeds returns the breaker to Closed with zero counts.
C8_Original ==
  [][\A w \in Workers :
       /\ (Calls(w) /\ cb.state = StateOpen /\ Elapsed)
          => pc'[w] = "inflight" /\ cb'.state = StateHalfOpen
       /\ (Records(w) /\ pc'[w] = "llm_ok"
             /\ att[w].seen = StateHalfOpen /\ Current(w))
          => cb'.state = StateClosed /\ cb'.counts = ZeroCounts]_vars

\* C8 amended: after the open timeout a call is admitted as a trial; the
\* trial success that makes max_requests consecutive successes returns the
\* breaker to Closed with the counters zero, an earlier one leaves it
\* Half-Open.
C8_Recovery ==
  [][\A w \in Workers :
       /\ (Calls(w) /\ cb.state = StateOpen /\ Elapsed)
          => pc'[w] = "inflight" /\ cb'.state = StateHalfOpen
       /\ (Records(w) /\ pc'[w] = "llm_ok"
             /\ att[w].seen = StateHalfOpen /\ Current(w))
          => IF cb.counts.ConsecutiveSuccesses + 1 >= MaxRequests
             THEN cb'.state = StateClosed /\ cb'.counts = ZeroCounts
             ELSE /\ cb'.state = StateHalfOpen
                  /\ cb'.counts.ConsecutiveSuccesses
                       = cb.counts.ConsecutiveSuccesses + 1]_vars

C8_Witness ==
  /\ cb.state = StateClosed
  /\ cb.counts = ZeroCounts
  /\ \A w \in Workers :
       pc[w] = "llm_ok" /\ att[w].seen = StateHalfOpen
       /\ att[w].generation + 1 = cb.generation

\* C9: an Open breaker stays Open, rejecting every call, until now is past
\* the expiry set timeout after it entered Open; the first call after that
\* finds it Half-Open; it never goes from Open to Closed.
C9_OpenOnlyByTimeout ==
  [][/\ (cb.state # StateOpen /\ cb'.state = StateOpen)
          => cb'.expiry = now + Timeout
     /\ cb.state = StateOpen
          => /\ cb'.state \in {StateOpen, StateHalfOpen}
             /\ cb'.state = StateHalfOpen => Elapsed
             /\ \A w \in Workers :
                  Calls(w)
                  => IF Elapsed
                     THEN /\ pc'[w] = "inflight"
                          /\ att'[w].seen = StateHalfOpen
                          /\ cb'.state = StateHalfOpen
                     ELSE /\ pc'[w] = "llm_failed"
                          /\ att'[w].cberr = ErrOpenState
                          /\ cb' = cb]_vars

C9_Witness ==
  /\ cb.state = StateHalfOpen
  /\ now > Timeout + 1
  /\ \E w \in Workers : pc[w] = "inflight" /\ att[w].seen = StateHalfOpen
  /\ \E w \in Workers : pc[w] = "llm_failed" /\ att[w].seen = StateOpen

\* C10 as stated: a completion attempt fails with the breaker-open error
\* exactly when the breaker rejected it without running the wrapped call.
C10_Original ==
  \A w \in Workers :
    pc[w] = "llm_failed"
    => (att[w].err = BreakerOpenMsg <=> ~att[w].executed)

\* C11 as stated: an attempt on a payload that does not decode reads and
\* writes no record, makes no completion call, sends no callback and returns
\* the decode error, and the job is not delivered again.
C11_Original ==
  \A w \in Workers :
    att[w].payload = "garbled"
    => /\ pc[w] = "returned"
       /\ att[w].ret = <<"failed to unmarshal payload">>
       /\ att[w].updates = <<>>
       /\ att[w].seen = "none" /\ ~att[w].executed
       /\ att[w].callback = "none"
       /\ att[w].retried = 0

\* C12 as stated: a job is attempted at most queue.retry + 1 times (the
\* attempt in progress is number retried + 1).
C12_Original ==
  \A w \in Workers :
    att[w].payload # "none" => att[w].retried + 1 <= QueueRetry + 1

\* The queue runtime is about to archive the job worker w holds: the handler
\* returned an error and the retry budget is spent.
Archiving(w) ==
  /\ pc[w] = "returned"
  /\ att[w].ret # <<>>
  /\ att[w].retried >= queue.maxRetry

\* C13 as stated: whenever a job is archived the record's status is Failed.
C13_Original ==
  \A w \in Workers : Archiving(w) => rec.status = StatusFailed

\* C13 amended: a job is archived with the completion error exactly when the
\* failure write of its last attempt succeeded; that write set the record
\* to Failed with the incremented count, and the record is Failed at the
\* archival unless it has been written since; a last attempt that failed at
\* the decode, the fetch, the Processing write or its outcome write wrote
\* no outcome.
C13_ArchivedRecord ==
  \A w \in Workers :
    Archiving(w)
    => /\ (att[w].ret[1] = "failed to process LLM") <=> Wrote(att[w])
       /\ Wrote(att[w])
            => /\ att[w].after[1].status = StatusFailed
               /\ att[w].after[1].failed_times = att[w].FailedTimes + 1
               /\ (rec.status # StatusFailed => rec # att[w].after[1])
       /\ ~Wrote(att[w])
            => att[w].ret \in { <<"failed to unmarshal payload">>,
                                <<"failed to get valuation record">>,
                                <<"failed to update status">>,
                                <<"failed to update failure information">>,
                                <<"failed to update record">> }

C13_Witness ==
  \E w \in Workers :
    /\ Archiving(w) /\ Wrote(att[w]) /\ att[w].retried > 0
    /\ rec.status = StatusFailed /\ rec.failed_times > 1

\* nothing is running and nothing is left to deliver
Quiescent ==
  /\ \A w \in Workers : pc[w] = "idle"
  /\ \A p \in Payloads : \A r \in DOMAIN queue.waiting[p] :
       queue.waiting[p][r] = 0

\* C14 as stated, in the form a finite run refutes: once every job is
\* completed or archived (no attempt will run again) the record is not
\* Processing.
C14_Original == Quiescent => rec.status # StatusProcessing

\* C15 as stated: no write lowers failed_times.
C15_Original == [][rec'.failed_times >= rec.failed_times]_vars

\* C16 as stated: the record carries a report if and only if its status is
\* Completed.
C16_Original == (rec.report # "") <=> (rec.status = StatusCompleted)

\* C16 amended: report is written only by the statement that sets the status
\* Completed, and that statement stores the attempt's result; so a Pending
\* record carries no report, a Completed record carries one, and a report is
\* in the record only after some attempt completed it (the record keeps it
\* while a later attempt has it Processing or Failed).
C16_ReportWrites ==
  /\ rec.status = StatusPending => rec.report = ""
  /\ rec.status = StatusCompleted => rec.report \in Contents
  /\ rec.report # ""
       => \/ queue.completed > 0
          \/ \E w \in Workers :
               /\ Wrote(att[w]) /\ att[w].result = rec.report
               /\ att[w].after[1].status = StatusCompleted
  /\ \A w \in Workers : \A i \in 1..Len(att[w].updates) :
       LET u == att[w].updates[i]
       IN /\ ("report" \in DOMAIN u) <=> (u.status = StatusCompleted)
          /\ "report" \in DOMAIN u => u.report = att[w].result /\ u.report # ""

C16_Witness ==
  /\ rec.status = StatusFailed
  /\ rec.report \in Contents
  /\ queue.completed > 0

\* an attempt between its fetch of the record and its final write to it
Writing(w) == pc[w] \in {"mark", "llm", "inflight", "llm_ok", "llm_failed"}

\* C17 as stated: at most one attempt is between its fetch of the record and
\* its final write.
C17_Original == Cardinality({w \in Workers : Writing(w)}) <= 1

\* C18: the steps of an attempt run in the order decode, fetch, Processing
\* write, completion call, outcome write, callback.  The breaker and the
\* completion API are reached only by an attempt whose Processing write
\* succeeded; an outcome write is made only after processLLM returned; the
\* callback is sent only after the Completed write succeeded; and an attempt
\* that returned an error ran no step after the one that failed.
C18_StepOrder ==
  \A w \in Workers :
    LET a == att[w]
        early == /\ ~a.executed /\ a.seen = "none"
                 /\ a.updates = <<>> /\ a.callback = "none"
    IN /\ a.marked => a.payload = "json"
       /\ pc[w] \in {"llm", "inflight", "llm_ok", "llm_failed", "callback"}
            => a.marked
       /\ (a.executed \/ a.seen # "none") => a.marked
       /\ a.updates # <<>>
            => /\ a.marked /\ a.seen # "none" /\ Len(a.updates) = 1
               /\ (a.result # "") # (a.err # "nil")
               /\ pc[w] \in {"callback", "returned"}
       /\ (a.callback # "none" \/ pc[w] = "callback")
            => /\ Wrote(a) /\ a.after[1].status = StatusCompleted
               /\ a.result # "" /\ a.executed
       /\ a.ret = <<"failed to unmarshal payload">> => ~a.marked /\ early
       /\ a.ret = <<"failed to get valuation record">> => ~a.marked /\ early
       /\ a.ret = <<"failed to update status">> => ~a.marked /\ early
       /\ (a.ret # <<>> /\ a.ret # <<"running">>)
            => a.callback = "none"
       /\ a.ret \in { <<"failed to update failure information">>,
                      <<"failed to update record">> }
            => ~Wrote(a) /\ Len(a.updates) = 1

C18_Witness ==
  \E w, v \in Workers :
    /\ pc[w] = "returned" /\ att[w].callback = "nil" /\ att[w].marked
    /\ pc[v] = "returned" /\ att[v].ret = <<"failed to update status">>

\* what the two validation functions are documented to let through
ValidationErrors ==
  { "invalid table name", "table name cannot be a reserved keyword",
    "invalid field name", "field name cannot be a reserved keyword",
    "invalid callback URL" }

SafeIdentifier(name, reserved) ==
  /\ name # <<>>
  /\ \A i \in 1..Len(name) : name[i] \in WordChars
  /\ ToLower(name) \notin reserved

\* C19: a Database method sends at most one statement, and only one whose
\* table identifier and SET columns passed validateTableName and
\* validateFieldName; when the table name, or a field name of the map of
\* UpdateRecord, fails its check the method returns the validation error,
\* sends nothing and the row is as before.
C19_ValidatedIdentifiers ==
  call.stage = "done"
  => /\ Len(call.sent) <= 1
     /\ call.sent # <<>>
          => /\ call.sent[1].table = call.table
             /\ SafeIdentifier(call.table, TableReservedKeywords)
             /\ \A f \in call.sent[1].set :
                  SafeIdentifier(f, FieldReservedKeywords)
             /\ call.op = "UpdateRecord"
                  => call.sent[1].set = DOMAIN call.updates
     /\ (\/ ~SafeIdentifier(call.table, TableReservedKeywords)
         \/ \E f \in DOMAIN call.updates :
              ~SafeIdentifier(f, FieldReservedKeywords))
          => /\ call.sent = <<>>
             /\ call.err \in ValidationErrors
             /\ rec = NewRow

C19_Witness ==
  /\ call.stage = "done" /\ call.op = "UpdateRecord"
  /\ call.table = <<"D","r","o","p">>
  /\ call.err = "table name cannot be a reserved keyword"
  /\ call.sent = <<>>

\* the map holds a callback_url string the URL check rejects
UnsafeCallback(updates) ==
  /\ ColCallbackURL \in DOMAIN updates
  /\ updates[ColCallbackURL].type = "string"
  /\ updates[ColCallbackURL].text.text # ""
  /\ ValidateCallbackURL(updates[ColCallbackURL].text) # "nil"

ReservedWords ==
  { <<"s","e","l","e","c","t">>, <<"f","r","o","m">>,
    <<"w","h","e","r","e">>, <<"i","n","s","e","r","t">>,
    <<"u","p","d","a","t","e">>, <<"d","e","l","e","t","e">>,
    <<"d","r","o","p">>, <<"a","l","t","e","r">>, <<"t","a","b","l","e">>,
    <<"a","n","d">>, <<"o","r">>, <<"n","o","t">>, <<"l","i","k","e">>,
    <<"i","n">>, <<"b","e","t","w","e","e","n">>, <<"i","s">>,
    <<"n","u","l","l">>, <<"t","r","u","e">>, <<"f","a","l","s","e">> }

\* two characters that are equal or the two cases of one letter
SameLetter(c, d) ==
  \/ c = d
  \/ \E i \in 1..26 : {c, d} = {UpperCase[i], LowerCase[i]}

\* s and k are the same word when letter case is ignored
EqualFold(s, k) ==
  /\ Len(s) = Len(k)
  /\ \A i \in 1..Len(s) : SameLetter(s[i], k[i])

\* s matches ^[A-Za-z0-9_]+$ and is no reserved word in any letter case
Identifier(s) ==
  /\ Len(s) >= 1
  /\ \A i \in 1..Len(s) : s[i] \in WordChars
  /\ \A k \in ReservedWords : ~EqualFold(s, k)

\* C21: validateTableName accepts a string exactly when it matches
\* ^[A-Za-z0-9_]+$ and is, ignoring letter case, none of the nineteen
\* reserved words.
C21_Original ==
  (call.stage = "done" /\ call.op = "validateTableName")
  => (call.err = "nil" <=> Identifier(call.name))

\* C22: validateFieldName accepts a string exactly when it matches
\* ^[A-Za-z0-9_]+$ and is, ignoring letter case, none of the nineteen
\* reserved words; a reserved word in any letter case is rejected.
C22_FieldNames ==
  (call.stage = "done" /\ call.op = "validateFieldName")
  => /\ call.err = "nil" <=> Identifier(call.name)
     /\ (\E k \in ReservedWords : EqualFold(call.name, k))
          => call.err = "field name cannot be a reserved keyword"

C22_Witness ==
  /\ call.stage = "done" /\ call.op = "validateFieldName"
  /\ call.name = <<"O","r">>
  /\ call.err = "field name cannot be a reserved keyword"

\* an address as its sixteen bytes
Canon(ip) == IF Len(ip) = 4 THEN ParseIPv4(ip[1], ip[2], ip[3], ip[4]) ELSE ip

\* a <= b for two addresses of sixteen bytes read as numbers
AddrLeq(a, b) ==
  \/ a = b
  \/ \E i \in 1..16 :
       /\ a[i] < b[i]
       /\ \A j \in 1..(i - 1) : a[j] = b[j]

\* the address lies between the first and the last address of a range
Blocked(ip) ==
  \E j \in 1..Len(forbiddenIPRanges) :
    /\ AddrLeq(Canon(forbiddenIPRanges[j].start), Canon(ip))
    /\ AddrLeq(Canon(ip), Canon(forbiddenIPRanges[j].end))

C24_Original ==
  (call.stage = "done" /\ call.op = "sendCallback")
  => IF ValidateCallbackURL(call.url) # "nil"
     THEN call.sent = <<>> /\ call.err # "nil"
     ELSE /\ call.sent = <<[method |-> "POST", url |-> call.url.text]>>
          /\ call.err # "nil"
               <=> (call.script[1].error \/ call.script[1].status # 200)

\* C25: an attempt calls sendCallback at most once, and only after the
\* completion call succeeded and the Completed write went through, for a
\* fetched record whose callback_url is not empty; an attempt that returns an
\* error, or whose record has no callback_url, has sent none, and once the
\* callback has an outcome, failed or not, the attempt has returned.
C25_OneCallback ==
  \A w \in Workers :
    /\ pc[w] = "callback" => att[w].callback = "none"
    /\ att[w].callback # "none"
         => /\ pc[w] = "returned"
            /\ att[w].ret = <<>>
            /\ att[w].CallbackURL # ""
            /\ att[w].executed /\ att[w].err = "nil"
            /\ Len(att[w].updates) = 1
            /\ att[w].updates[1] = CompletedUpdates(att[w])
            /\ att[w].after # <<>>
    /\ (pc[w] = "returned" /\ att[w].ret # <<>>) => att[w].callback = "none"
    /\ att[w].CallbackURL = "" => att[w].callback = "none" /\ pc[w] # "callback"

C25_Witness ==
  \E w, v \in Workers :
    /\ pc[w] = "returned"
    /\ att[w].callback = "failed to send callback request"
    /\ pc[v] = "returned"
    /\ att[v].CallbackURL # "" /\ att[v].ret # <<>> /\ att[v].executed
    /\ att[v].callback = "none"

\* the status codes in decimal
StatusDigits ==
  (200 :> <<"2","0","0">>) @@ (201 :> <<"2","0","1">>)
    @@ (404 :> <<"4","0","4">>) @@ (500 :> <<"5","0","0">>)

\* sub occurs in text
Contains(text, sub) ==
  \E i \in 0..(Len(text) - Len(sub)) : SubSeq(text, i + 1, i + Len(sub)) = sub

\* the API answered 200 and the body, read to its end, decodes and has a
\* first choice whose content is not empty
GoodAnswer(c) ==
  /\ c.got = "body"
  /\ c.answer.status = 200
  /\ c.answer.body.decodes
  /\ Len(c.answer.body.choices) >= 1
  /\ c.answer.body.choices[1] # ""

C27_CancelAborts ==
  /\ [][(/\ call.stage \in {"inflight", "reading"}
         /\ call.jobctx # "live"
         /\ call' # call)
        => /\ call'.stage = "done"
           /\ call'.err # NilError
           /\ call'.result = ""
           /\ call'.got = call.got]_vars
  /\ (call.stage \in {"inflight", "reading"} /\ call.jobctx # "live")
       ~> (call.stage = "done" /\ call.err # NilError)

C27_Witness ==
  /\ call.stage = "done" /\ call.op = "processLLM"
  /\ call.cancelled = "inflight"
  /\ call.jobctx = "context canceled"
  /\ now < call.deadline
  /\ ~call.answer.error /\ call.answer.status = 200
  /\ call.err = NewError("failed to send LLM API request")

\* the jobs waiting in the queue
Waiting ==
  LET RECURSIVE Sum(_)
      Sum(r) == IF r < 0 THEN 0 ELSE queue.waiting["json"][r] + Sum(r - 1)
  IN Sum(queue.maxRetry)

\* the workers that are running an attempt
Busy == {w \in Workers : pc[w] # "idle"}

Halted == ~ENABLED ServerStep

\* C30: once Worker.Stop has been called on a running worker and the
\* attempts that were running have ended, so that the worker process has no
\* step left to take, Worker.Run has returned nil.
C30_Original ==
  (call.op = "Worker" /\ call.stop /\ Halted)
  => call.run = "returned" /\ call.err = "nil"

\* C29: the job scheduled for its n-th retry (n >= 1) waits n minutes,
\* whatever its error and its payload.
C29_Original ==
  (call.op = "retry" /\ call.stage = "scheduled")
  => call.delay = call.retried * Minute

\* the jobs waiting in the queue that have not been retried
Enqueued == queue.waiting["json"][0]

\* C31 as stated: a request that carries both table_name and id is answered
\* 200 with status "enqueued" and one job of its table_name and id is
\* enqueued, or 500 with no job when the enqueue fails; a request missing
\* either field is answered 400 and nothing is enqueued.
C31_Original ==
  (call.stage = "done" /\ call.op = "CreateLLMTask" /\ call.body.valid)
  => IF call.body.keys = {"table_name", "id"}
     THEN \/ /\ call.backend = "ok"
             /\ call.code = 200 /\ call.status = "enqueued"
             /\ call.enqueued =
                  <<NewLLMTask(call.body.TableName, call.body.ID)>>
             /\ Enqueued = 1
          \/ /\ call.backend = "error"
             /\ call.code = 500 /\ Enqueued = 0
     ELSE call.code = 400 /\ call.enqueued = <<>> /\ Enqueued = 0

\* the request carries a table_name that is not empty and an id that is not 0
Complete(body) ==
  /\ body.valid
  /\ body.keys = {"table_name", "id"}
  /\ body.TableName # ""
  /\ body.ID # 0

\* C31: a request with a non-empty table_name and a non-zero id is answered
\* 200 with status "enqueued" and one job of its table_name and id is
\* enqueued, or 500 with no job when the enqueue fails; every other request
\* (a field missing, empty or zero, or a body that does not decode) is
\* answered 400 and nothing is enqueued.
C31_CreateTask ==
  (call.stage = "done" /\ call.op = "CreateLLMTask")
  => IF Complete(call.body)
     THEN \/ /\ call.backend = "ok"
             /\ call.code = 200 /\ call.status = "enqueued"
             /\ call.enqueued =
                  <<NewLLMTask(call.body.TableName, call.body.ID)>>
             /\ Enqueued = 1
          \/ /\ call.backend = "error"
             /\ call.code = 500 /\ call.status = "" /\ Enqueued = 0
     ELSE call.code = 400 /\ call.enqueued = <<>> /\ Enqueued = 0

C31_Witness ==
  /\ call.stage = "done" /\ call.op = "CreateLLMTask"
  /\ call.body.keys = {"table_name", "id"}
  /\ call.body.TableName = "valuation" /\ call.body.ID = 0
  /\ call.code = 400 /\ Enqueued = 0

\* C32: ListTasks asks the inspector once, with page size 10 for a limit
\* <= 0, 100 for a limit > 100 and the limit otherwise, with offset 0 for a
\* negative offset, for the page that holds the offset (offset / limit + 1),
\* for the active tasks when the status is absent or unknown, and of queue
\* "default" when none is named; the answer reports the limit and offset used.
C32_Paging ==
  (call.stage = "done" /\ call.op = "ListTasks" /\ call.query.valid)
  => LET q == call.query
         limit == IF q.Limit <= 0 THEN 10 ELSE IF q.Limit > 100 THEN 100
                  ELSE q.Limit
         offset == IF q.Offset < 0 THEN 0 ELSE q.Offset
         a == call.asked[1]
     IN /\ Len(call.asked) = 1
        /\ a.PageSize = limit /\ a.PageSize \in 1..100
        /\ a.Page >= 1
        /\ (a.Page - 1) * limit <= offset /\ offset < a.Page * limit
        /\ a.queue = IF q.QueueName = "" THEN "default" ELSE q.QueueName
        /\ q.Status \notin {"pending", "active", "completed", "failed",
                            "retry", "archived"}
             => a.method = "ListActiveTasks"
        /\ q.Status = "pending" => a.method = "ListPendingTasks"
        /\ q.Status = "archived" => a.method = "ListArchivedTasks"
        /\ call.code = 200 => call.limit = limit /\ call.offset = offset

C32_Witness ==
  /\ call.stage = "done" /\ call.op = "ListTasks" /\ call.code = 200
  /\ call.query.Limit = 0 /\ call.query.Offset = 250
  /\ call.query.Status = "done"
  /\ call.asked[1].PageSize = 10 /\ call.asked[1].Page = 26
  /\ call.asked[1].method = "ListActiveTasks"

\* the breaker parameters the claim asks of an enabled breaker, on the
\* numbers: a NaN is in no interval
BreakerParametersValid(b) ==
  /\ b.MaxRequests > 0 /\ b.Interval > 0 /\ b.Timeout > 0
  /\ ~b.FailThreshold.nan
  /\ 0 < b.FailThreshold.hundredths /\ b.FailThreshold.hundredths <= 100

\* C33 as stated: with the breaker enabled the Deepseek configuration is
\* accepted only if max_requests > 0, interval > 0, timeout > 0 and
\* 0 < fail_threshold <= 1; with the breaker disabled its parameters decide
\* nothing: the answer is the one given for any other breaker parameters.
C33_Original ==
  call.stage = "validated"
  => /\ (call.cfg.CircuitBreaker.Enabled /\ call.err = "nil")
          => BreakerParametersValid(call.cfg.CircuitBreaker)
     /\ ~call.cfg.CircuitBreaker.Enabled
          => \A b \in BreakerConfigs :
               ~b.Enabled
               => validateDeepseekConfig(
                    [call.cfg EXCEPT !.CircuitBreaker = b]) = call.err

\* C34: an attempt that fetched the record goes on to the Processing write
\* whatever status it fetched, the Processing write sets Processing over any
\* status and is followed by the completion call, and a Completed write,
\* whatever status was fetched, stores the attempt's result as report and
\* the fetched current_task_node plus one and leaves failed_times alone; on a
\* record fetched Completed that is at least the second increment.
C34_NoStatusCheck ==
  [][\A w \in Workers :
       /\ (pc[w] = "idle" /\ pc'[w] # "idle" /\ att'[w].Status # "")
            => /\ pc'[w] = "mark"
               /\ att'[w].Status = rec.status
               /\ att'[w].ret = <<"running">>
       /\ (pc[w] = "mark" /\ pc'[w] # "mark" /\ att'[w].marked)
            => rec'.status = StatusProcessing /\ pc'[w] = "llm"
       /\ (pc[w] = "llm_ok" /\ pc'[w] # "llm_ok" /\ Wrote(att'[w]))
            => /\ rec'.status = StatusCompleted
               /\ rec'.report = att[w].result
               /\ rec'.current_task_node = att[w].CurrentTaskNode + 1
               /\ rec'.failed_times = rec.failed_times
               /\ att[w].Status = StatusCompleted
                    => att[w].CurrentTaskNode >= 2]_vars

C34_Witness ==
  \E w \in Workers :
    /\ pc[w] = "returned" /\ att[w].ret = <<>>
    /\ att[w].Status = StatusCompleted
    /\ Wrote(att[w])
    /\ rec.status = StatusCompleted
    /\ rec.report = att[w].result
    /\ rec.current_task_node = 3

\* the family of an address: net.IP counts an IPv4-mapped address as IPv4
IsIPv4(ip) ==
  \/ Len(ip) = 4
  \/ /\ Len(ip) = 16
     /\ \A i \in 1..10 : ip[i] = 0
     /\ ip[11] = 255 /\ ip[12] = 255

\* C35: for each forbidden range and every address, ipInRange answers true
\* exactly when the address is of the family of the range and, read as a
\* number (most significant byte first), lies between start and end
\* inclusive; an address of the other family is never matched.
C35_RangeTest ==
  (call.stage = "done" /\ call.op = "ipInRange")
  => LET r == forbiddenIPRanges[call.range]
     IN call.result
          <=> /\ IsIPv4(call.ip) <=> IsIPv4(r.start)
              /\ AddrLeq(Canon(r.start), Canon(call.ip))
              /\ AddrLeq(Canon(call.ip), Canon(r.end))

C35_Witness ==
  /\ call.stage = "done" /\ call.op = "ipInRange"
  /\ call.ip = <<172, 31, 255, 255>> /\ call.range = 2
  /\ call.result

\* the breaker refused the attempt's completion call: no downstream call
Rejected(a) == a.cberr # "nil" /\ ~a.executed

\* C36 as stated: an attempt the breaker rejected, once its failure write is
\* done, has left the record Failed with failed_times one above the value
\* it fetched and failed_info the breaker-open message, and has returned an
\* error.
C36_Original ==
  \A w \in Workers :
    (pc[w] = "returned" /\ Rejected(att[w]) /\ Wrote(att[w]))
    => /\ att[w].after[1].status = StatusFailed
       /\ att[w].after[1].failed_times = att[w].FailedTimes + 1
       /\ att[w].after[1].failed_info = BreakerOpenMsg
       /\ att[w].ret # <<>>

\* C37: a handler built from a configuration with the breaker disabled has
\* a breaker with max_requests 2, interval 1 minute, timeout 2 minutes and
\* fail_threshold 0.5; every completion call of its workers goes through
\* that one breaker (a call runs only once the breaker admitted it, and the
\* breaker's window counts the calls of all workers); and the breaker opens
\* only on a failure that brings the window to at least 5 requests of which
\* at least half failed.
C37_AlwaysBreaker ==
  /\ [](~call.cfg.CircuitBreaker.Enabled
        => /\ call.stage = "built"
             => call.settings =
                  [Name |-> "llm-api", MaxRequests |-> 2, Interval |-> 1,
                   Timeout |-> 2,
                   FailThreshold |-> [nan |-> FALSE, hundredths |-> 50]]
           /\ \A w \in Workers :
                /\ pc[w] # "idle" => call.stage = "built"
                /\ pc[w] = "inflight"
                     => att[w].seen \in {StateClosed, StateHalfOpen}
                /\ pc[w] = "llm_failed" /\ ~att[w].executed
                     => att[w].seen \in {StateOpen, StateHalfOpen}
           /\ cb.state = StateClosed
                => cb.counts.Requests
                     >= Cardinality({w \in Workers :
                                       /\ pc[w] = "inflight"
                                       /\ att[w].generation = cb.generation}))
  /\ [][(~call.cfg.CircuitBreaker.Enabled
         /\ cb.state = StateClosed /\ cb'.state = StateOpen)
        => /\ cb.counts.Requests >= 5
           /\ 2 * (cb.counts.TotalFailures + 1) >= cb.counts.Requests]_vars

C37_Witness ==
  /\ ~call.cfg.CircuitBreaker.Enabled
  /\ call.cfg.CircuitBreaker.MaxRequests = 0
  /\ call.cfg.CircuitBreaker.Timeout = 0
  /\ call.stage = "built"
  /\ cb.state = StateOpen
  /\ pc[1] = "llm_failed" /\ att[1].cberr = ErrOpenState
  /\ pc[2] = "llm_failed" /\ att[2].cberr = ErrOpenState

\* the step in which the wrapped function of the followed call returns
Returns == call.stage \in {"inflight", "reading"} /\ call'.stage = "done"

\* the step records one success, or one failure, in the breaker: the count
\* of the running generation goes up by one, or the outcome moves the
\* breaker (a success closes it from Half-Open, a failure opens it)
SuccessRecorded ==
  \/ /\ cb'.generation = cb.generation
     /\ cb'.counts.TotalSuccesses = cb.counts.TotalSuccesses + 1
     /\ cb'.counts.TotalFailures = cb.counts.TotalFailures
     /\ cb'.counts.Requests = cb.counts.Requests
  \/ cb.state = StateHalfOpen /\ cb'.state = StateClosed

FailureRecorded ==
  \/ /\ cb'.generation = cb.generation
     /\ cb'.counts.TotalFailures = cb.counts.TotalFailures + 1
     /\ cb'.counts.TotalSuccesses = cb.counts.TotalSuccesses
     /\ cb'.counts.Requests = cb.counts.Requests
  \/ cb.state # StateOpen /\ cb'.state = StateOpen

\* the step records nothing: no count goes up and no outcome moves the
\* breaker (a window or an open timeout may end at the step)
NothingRecorded ==
  /\ cb'.counts.TotalSuccesses <= cb.counts.TotalSuccesses
  /\ cb'.counts.TotalFailures <= cb.counts.TotalFailures
  /\ cb'.counts.Requests <= cb.counts.Requests
  /\ \/ cb'.state = cb.state
     \/ cb.state = StateOpen /\ cb'.state = StateHalfOpen

\* C38 as stated: the return of every executed call is recorded once, as a
\* success for a 200 answer with non-empty content and as a failure for
\* every error; a rejected call is recorded as neither.
C38_Original ==
  [][/\ Returns
        => IF call'.err = NilError
           THEN GoodAnswer(call)' /\ SuccessRecorded
           ELSE FailureRecorded
     /\ (call.stage = "start" /\ call'.stage = "done") => NothingRecorded]_vars

\* the breaker has left the generation that admitted the followed call, or
\* leaves it at this step because its window has ended
Stale ==
  \/ cb.generation # call.generation
  \/ cb.state = StateClosed /\ cb.expiry # 0 /\ cb.expiry < now

\* C38 amended: the return of an executed call is recorded once if the
\* breaker is still in the generation that admitted the call, as a success
\* for a 200 answer with non-empty content and as a failure for every error,
\* and is not recorded at all if the breaker has left that generation (the
\* window ended, or the breaker tripped or closed meanwhile); a rejected
\* call is recorded as neither.
C38_RecordedOnce ==
  [][/\ Returns
        => /\ call'.err = NilError => GoodAnswer(call)'
           /\ IF Stale THEN NothingRecorded
              ELSE IF call'.err = NilError THEN SuccessRecorded
              ELSE FailureRecorded
     /\ (call.stage = "start" /\ call'.stage = "done") => NothingRecorded]_vars

C38_Witness ==
  /\ call.stage = "done" /\ call.got = "body"
  /\ call.err = NilError
  /\ call.generation = 2 /\ call.found = 3
  /\ cb.state = StateOpen
  /\ \E w \in Workers : pc[w] = "llm_failed" /\ att[w].executed

\* no attempt of another job has touched the record: no other worker holds
\* a job, and no job has been settled or waits for a retry
Alone(w) ==
  /\ \A v \in Workers \ {w} : att[v].payload = "none"
  /\ queue.completed = 0 /\ queue.archived = 0
  /\ \A p \in Payloads : \A r \in 1..queue.maxRetry : queue.waiting[p][r] = 0

\* C39: when the completion call has failed and the failure write fails,
\* the attempt returns the write error, not the completion error, and writes
\* nothing: the record stays as it was, status Processing (as this attempt
\* set it, when no attempt of another job has touched the record) and
\* failed_times and failed_info as before the attempt.
C39_WriteErrorReturned ==
  [][\A w \in Workers :
       (pc[w] = "llm_failed" /\ pc'[w] = "returned" /\ ~Wrote(att'[w]))
       => /\ att'[w].ret = <<"failed to update failure information">>
          /\ att'[w].ret # <<"failed to process LLM", att[w].err>>
          /\ att[w].err # "nil"
          /\ att[w].marked
          /\ rec' = rec
          /\ Alone(w) => /\ rec.status = StatusProcessing
                         /\ rec.failed_times = att[w].FailedTimes]_vars

C39_Witness ==
  \E w \in Workers :
    /\ pc[w] = "returned"
    /\ att[w].ret = <<"failed to update failure information">>
    /\ att[w].executed /\ att[w].err # "nil"
    /\ att[w].retried = 1 /\ att[w].FailedTimes = 1
    /\ Alone(w)
    /\ rec.status = StatusProcessing
    /\ rec.failed_times = 1

\* C40: when the completion call has succeeded and the Completed write
\* fails, the attempt returns an error and sends no callback, and writes
\* nothing: the record stays as it was, status Processing (as this attempt
\* set it, when no attempt of another job has touched the record) with
\* report and current_task_node as before; the text is not kept, so an
\* attempt has a text to store only from a completion call of its own.
C40_CompletedWriteFails ==
  [][\A w \in Workers :
       /\ (pc[w] = "llm_ok" /\ pc'[w] # "llm_ok" /\ ~Wrote(att'[w]))
          => /\ pc'[w] = "returned"
             /\ att'[w].ret = <<"failed to update record">>
             /\ att'[w].callback = "none"
             /\ rec' = rec
             /\ Alone(w) => /\ rec.status = StatusProcessing
                            /\ rec.current_task_node = att[w].CurrentTaskNode
                            /\ rec.report = ""
       /\ (pc[w] = "idle" /\ pc'[w] # "idle")
          => att'[w].result = "" /\ ~att'[w].executed
       /\ pc'[w] = "llm_ok" => att'[w].executed /\ att'[w].result \in Contents
       /\ pc'[w] = "callback" => Wrote(att'[w])]_vars

C40_Witness ==
  \E w \in Workers :
    /\ pc[w] = "returned"
    /\ att[w].ret = <<"failed to update record">>
    /\ att[w].result \in Contents
    /\ att[w].CallbackURL # "" /\ att[w].callback = "none"
    /\ Alone(w)
    /\ rec.status = StatusProcessing
    /\ rec.report = "" /\ rec.current_task_node = 1

\* Reachability of the snapshots: each of these is violated under SpecBreaker,
\* and the trace is a run from NewCircuitBreaker(1) to the snapshot.
SnapshotIdleNotMet == ~(now = SnapshotIdle.now /\ cb = SnapshotIdle.cb)

SnapshotPrimedNotMet == ~(now = SnapshotPrimed.now /\ cb = SnapshotPrimed.cb)

SnapshotTrippedNotMet == ~(now = SnapshotTripped.now /\ cb = SnapshotTripped.cb)

====
